---------------------------- MODULE Spec2Model ----------------------------
(***************************************************************************)
(* A model of the OCR invoice extraction engine of the books repository   *)
(* (src/src/pages/OCRInvoice/OCRParser.js).                                *)
(*                                                                         *)
(* Text is held as TLA+ strings; a character is a string of length one.    *)
(* Decimal numbers are held as integers counting hundredths (Scale), the   *)
(* JavaScript value null / NaN as Null.                                    *)
(***************************************************************************)
EXTENDS Integers, Sequences, FiniteSets, TLC

VARIABLES
    pc,             \* position of the operation in progress
    tok,            \* parseNumber: the token handed to it
    num,            \* parseNumber: its result
    cand,           \* validateItem: the candidate handed to it
    verdict,        \* validateItem: its result and whether it logged a warning
    text,           \* processInvoice: the recognized text
    lines,          \* processInvoice: the trimmed non-empty lines of text
    party,          \* processInvoice: what extractParty returned
    invoiceNumber,  \* processInvoice: what extractInvoiceNumber returned
    date,           \* processInvoice: what extractDate returned
    startIdx,       \* extractItems: what findTableStart returned
    endIdx,         \* extractItems: what findTableEnd returned
    idx,            \* extractItems: index into lines of the next line of the loop
    items,          \* extractItems: the items pushed so far
    itemLine,       \* for each item, the index into lines of the line it came from
    totals,         \* processInvoice: what extractTotals returned
    record,         \* processInvoice: the record returned
    worker,         \* the parser's this.worker: a worker's number, or NoWorker
    created,        \* how many workers Tesseract.createWorker has made so far
    liveWorkers,    \* the workers made and not terminated
    call,           \* for each task, where its call on the parser stands
    imageFile,      \* OCRInvoice: the image chosen
    isProcessing,   \* OCRInvoice: processing is under way
    processingStatus,       \* OCRInvoice: the status line
    processedInvoice,       \* OCRInvoice: the record on display
    lowConfidenceFields,    \* OCRInvoice: the fields flagged for review
    toast,          \* the type of the last toast shown
    review,         \* history of the review form: whether updateItemAmount or
                    \* removeItem has run on the record on display, and for each
                    \* of its items whether updateItemAmount has run on it
    activeScreen,   \* App: the screen on display
    isAuthenticated,        \* App: a user is logged in
    currentUser,    \* App: the user logged in, or NoUser
    isDatabaseConnected,    \* App: a database is connected
    storedUser,     \* localStorage: the user data kept with authenticated = 'true'
    task,           \* App: for each handler that can be in flight, its await
    currentDesc,    \* hardened extractItems: the description kept for a later line
    tableStarted,   \* hardened extractItems: the table is open
    outcome         \* for each line the hardened extractItems has passed, how its
                    \* turn of the loop ended

numVars == <<tok, num>>
validateVars == <<cand, verdict>>
invoiceVars == <<text, lines, party, invoiceNumber, date, startIdx, endIdx, idx, items,
                 itemLine, totals, record>>
sessionVars == <<worker, created, liveWorkers, call>>
pageVars == <<imageFile, isProcessing, processingStatus, processedInvoice,
              lowConfidenceFields, toast, review>>
shellVars == <<activeScreen, isAuthenticated, currentUser, isDatabaseConnected,
               storedUser, task>>
hardenedVars == <<currentDesc, tableStarted, outcome>>
vars == <<pc, tok, num, cand, verdict, text, lines, party, invoiceNumber, date, startIdx,
          endIdx, idx, items, itemLine, totals, record, sessionVars, pageVars, shellVars,
          hardenedVars>>

(***************************************************************************)
(* Characters and strings                                                  *)
(***************************************************************************)
Scale == 100
Null == -1

Digits == {"0", "1", "2", "3", "4", "5", "6", "7", "8", "9"}
Whitespace == {" ", "\t"}
CurrencySymbols == {"$"}

Abs(x) == IF x < 0 THEN -x ELSE x
Max(a, b) == IF a >= b THEN a ELSE b
Min(a, b) == IF a <= b THEN a ELSE b

Ch(s, i) == IF i >= 1 /\ i <= Len(s) THEN SubSeq(s, i, i) ELSE ""

DigitVal(c) ==
    CASE c = "0" -> 0 [] c = "1" -> 1 [] c = "2" -> 2 [] c = "3" -> 3
      [] c = "4" -> 4 [] c = "5" -> 5 [] c = "6" -> 6 [] c = "7" -> 7
      [] c = "8" -> 8 [] c = "9" -> 9 [] OTHER -> 0

Includes(s, c) == \E i \in 1..Len(s) : Ch(s, i) = c

IndexOf(s, c) ==
    IF Includes(s, c) THEN CHOOSE i \in 1..Len(s) :
                               Ch(s, i) = c /\ \A j \in 1..(i - 1) : Ch(s, j) # c
    ELSE 0

LastIndexOf(s, c) ==
    IF Includes(s, c) THEN CHOOSE i \in 1..Len(s) :
                               Ch(s, i) = c /\ \A j \in (i + 1)..Len(s) : Ch(s, j) # c
    ELSE 0

MinOf(S) == CHOOSE x \in S : \A y \in S : x <= y
MaxOf(S) == CHOOSE x \in S : \A y \in S : x >= y

\* The strings ss[lo], ..., ss[hi] joined, by halves.
RECURSIVE ConcatRange(_, _, _)
ConcatRange(ss, lo, hi) ==
    IF lo > hi THEN ""
    ELSE IF lo = hi THEN ss[lo]
    ELSE ConcatRange(ss, lo, (lo + hi) \div 2) \o ConcatRange(ss, (lo + hi) \div 2 + 1, hi)

Concat(ss) == ConcatRange(ss, 1, Len(ss))

RemoveAll(s, set) ==
    Concat([i \in 1..Len(s) |-> IF Ch(s, i) \in set THEN "" ELSE Ch(s, i)])

KeepOnly(s, set) ==
    Concat([i \in 1..Len(s) |-> IF Ch(s, i) \in set THEN Ch(s, i) ELSE ""])

ReplaceFirst(s, c, d) ==
    LET i == IndexOf(s, c)
    IN  IF i = 0 THEN s ELSE SubSeq(s, 1, i - 1) \o d \o SubSeq(s, i + 1, Len(s))

Trim(s) ==
    LET keep == {i \in 1..Len(s) : Ch(s, i) \notin Whitespace}
    IN  IF keep = {} THEN "" ELSE SubSeq(s, MinOf(keep), MaxOf(keep))

CountOf(s, c) == Cardinality({i \in 1..Len(s) : Ch(s, i) = c})

\* Number of characters of class set that start at position i + 1 of s.
Run(s, i, set) ==
    LET stop == {j \in (i + 1)..Len(s) : Ch(s, j) \notin set}
    IN  IF stop = {} THEN Len(s) - i
        ELSE (CHOOSE j \in stop : \A k \in stop : j <= k) - i - 1

RECURSIVE DigitsValue(_)
DigitsValue(s) ==
    IF s = "" THEN 0
    ELSE DigitsValue(SubSeq(s, 1, Len(s) - 1)) * 10 + DigitVal(Ch(s, Len(s)))

(***************************************************************************)
(* parseFloat: the longest prefix that reads as a decimal literal, after   *)
(* leading white space; NaN (Null) when there is none.  The result is in   *)
(* hundredths: fractional digits beyond the second are dropped.  Tokens    *)
(* reaching parseNumber hold digits, separators, white space and currency  *)
(* symbols only, so signs and exponents are not modelled.                  *)
(***************************************************************************)
parseFloat(s) ==
    LET ws   == Run(s, 0, Whitespace)
        ni   == Run(s, ws, Digits)
        dot  == Ch(s, ws + ni + 1) = "."
        nf   == IF dot THEN Run(s, ws + ni + 1, Digits) ELSE 0
        ip   == SubSeq(s, ws + 1, ws + ni)
        fp   == SubSeq(s, ws + ni + 2, ws + ni + 1 + nf)
        frac == DigitVal(Ch(fp, 1)) * 10 + DigitVal(Ch(fp, 2))
    IN  IF ni = 0 /\ nf = 0 THEN Null
        ELSE DigitsValue(ip) * Scale + frac

(***************************************************************************)
(* DynamicPatternParser.parseNumber                                        *)
(***************************************************************************)
parseNumberThousandsOnly(str) ==
    IF str = "" THEN Null
    ELSE parseFloat(RemoveAll(Trim(RemoveAll(str, CurrencySymbols)),
                              Whitespace \cup {","}))

parseNumber(str) ==
    IF str = "" THEN Null
    ELSE
      LET c0       == Trim(RemoveAll(str, CurrencySymbols))
          hasComma == Includes(c0, ",")
          hasDot   == Includes(c0, ".")
          hasSpace == Includes(c0, " ")
          c1       == IF hasSpace THEN RemoveAll(c0, Whitespace) ELSE c0
          c2       == IF hasComma /\ hasDot
                      THEN IF LastIndexOf(c1, ".") > LastIndexOf(c1, ",")
                           THEN RemoveAll(c1, {","})
                           ELSE ReplaceFirst(RemoveAll(c1, {"."}), ",", ".")
                      ELSE IF hasComma
                      THEN IF CountOf(c1, ",") = 1
                              /\ Len(c1) - IndexOf(c1, ",") = 2
                           THEN ReplaceFirst(c1, ",", ".")
                           ELSE RemoveAll(c1, {","})
                      ELSE c1
      IN  parseFloat(c2)

(***************************************************************************)
(* Regular-expression matching.  A position is the number of characters    *)
(* consumed so far.  Every piece of a pattern yields the positions at      *)
(* which it can end, in the order in which a backtracking matcher tries    *)
(* them (greedy: longest first; lazy: shortest first; alternation: left    *)
(* to right).                                                              *)
(***************************************************************************)
Lower == "abcdefghijklmnopqrstuvwxyz"
Upper == "ABCDEFGHIJKLMNOPQRSTUVWXYZ"
LowerSet == {Ch(Lower, k) : k \in 1..26}
UpperSet == {Ch(Upper, k) : k \in 1..26}
WordChars == LowerSet \cup UpperSet \cup Digits \cup {"_"}
CodeChars == LowerSet \cup UpperSet \cup Digits \cup {"-"}
IdSepChars == Whitespace \cup {".", ":"}

LowerOf == [c \in UpperSet |-> Ch(Lower, CHOOSE k \in 1..26 : Ch(Upper, k) = c)]
UpperOf == [c \in LowerSet |-> Ch(Upper, CHOOSE k \in 1..26 : Ch(Lower, k) = c)]
ToLowerCh(c) == IF c \in UpperSet THEN LowerOf[c] ELSE c
ToUpperCh(c) == IF c \in LowerSet THEN UpperOf[c] ELSE c

\* s.toLowerCase()
ToLowerCase(s) == Concat([i \in 1..Len(s) |-> ToLowerCh(Ch(s, i))])

\* The literal kw stands at position p of s.
LitAt(s, p, kw) == p >= 0 /\ p + Len(kw) <= Len(s) /\ SubSeq(s, p + 1, p + Len(kw)) = kw

\* s.includes(kw)
Contains(s, kw) == \E p \in 0..(Len(s) - Len(kw)) : LitAt(s, p, kw)

Down(a, b) == [k \in 1..(a - b + 1) |-> a - k + 1]
Up(a, b) == [k \in 1..(b - a + 1) |-> a + k - 1]

FlatMap(E, F(_)) ==
    LET f[k \in 0..Len(E)] == IF k = 0 THEN <<>> ELSE f[k - 1] \o F(E[k])
    IN  f[Len(E)]

\* set+ (min = 1) or set* (min = 0), greedy
GreedyEnds(s, p, set, min) == Down(p + Run(s, p, set), p + min)

DigitsAt(s, p, n) == p + n <= Len(s) /\ \A j \in 1..n : Ch(s, p + j) \in Digits

\* (?:[seps]\d{3})* , greedy
RECURSIVE GroupCount(_, _, _)
GroupCount(s, p, seps) ==
    IF Ch(s, p + 1) \in seps /\ DigitsAt(s, p + 1, 3)
    THEN 1 + GroupCount(s, p + 4, seps) ELSE 0
GroupEnds(s, p, seps) == [k \in 1..(GroupCount(s, p, seps) + 1) |->
                              p + 4 * (GroupCount(s, p, seps) + 1 - k)]

\* (?:[seps]\d{2})? , greedy
Frac2Ends(s, p, seps) ==
    IF Ch(s, p + 1) \in seps /\ DigitsAt(s, p + 1, 2) THEN <<p + 3, p>> ELSE <<p>>

\* numberPatterns.standard  \d+(?:,\d{3})*(?:\.\d{2})?
StandardEnds(s, p) ==
    FlatMap(GreedyEnds(s, p, Digits, 1),
            LAMBDA d : FlatMap(GroupEnds(s, d, {","}),
                               LAMBDA g : Frac2Ends(s, g, {"."})))

\* numberPatterns.european  \d+(?:[\s.]\d{3})*(?:,\d{2})?
EuropeanEnds(s, p) ==
    FlatMap(GreedyEnds(s, p, Digits, 1),
            LAMBDA d : FlatMap(GroupEnds(s, d, Whitespace \cup {"."}),
                               LAMBDA g : Frac2Ends(s, g, {","})))

\* numberPatterns.simple  \d+(?:\.\d+)?
SimpleEnds(s, p) ==
    FlatMap(GreedyEnds(s, p, Digits, 1),
            LAMBDA d : IF Ch(s, d + 1) = "."
                       THEN GreedyEnds(s, d + 1, Digits, 1) \o <<d>>
                       ELSE <<d>>)

\* num(name): currencySymbols, then standard | european | simple
NumEnds(s, p) ==
    FlatMap(IF Ch(s, p + 1) \in CurrencySymbols THEN <<p + 1, p>> ELSE <<p>>,
            LAMBDA c : FlatMap(GreedyEnds(s, c, Whitespace, 0),
                               LAMBDA w : StandardEnds(s, w) \o EuropeanEnds(s, w)
                                              \o SimpleEnds(s, w)))

\* (?:each|pcs?|unit|nos?|pc|ea)
UnitWords == <<"each", "pcs", "pc", "unit", "nos", "no", "pc", "ea">>
UnitEnds(s, p) ==
    FlatMap(UnitWords, LAMBDA w : IF LitAt(ToLowerCase(SubSeq(s, p + 1, p + Len(w))), 0, w)
                                  THEN <<p + Len(w)>> ELSE <<>>)

\* (?<id>\d+[\.:])?
OptIdEnds(s, p) ==
    FlatMap(GreedyEnds(s, p, Digits, 1),
            LAMBDA d : IF Ch(s, d + 1) \in {".", ":"} THEN <<d + 1>> ELSE <<>>) \o <<p>>

PieceEnds(piece, s, p) ==
    CASE piece = "id"    -> GreedyEnds(s, p, Digits, 1)
      [] piece = "idsep" -> GreedyEnds(s, p, IdSepChars, 1)
      [] piece = "code"  -> GreedyEnds(s, p, CodeChars, 1)
      [] piece = "ws"    -> GreedyEnds(s, p, Whitespace, 1)
      [] piece = "ws0"   -> GreedyEnds(s, p, Whitespace, 0)
      [] piece = "desc"  -> Up(p + 1, Len(s))
      [] piece = "num"   -> NumEnds(s, p)
      [] piece = "unit"  -> UnitEnds(s, p)
      [] piece = "optid" -> OptIdEnds(s, p)
      [] piece = "end"   -> IF p = Len(s) THEN <<p>> ELSE <<>>

NoMatch == [ok |-> FALSE, b |-> <<>>]

\* The first way, in backtracking order, to match pieces k.. of pat from
\* position p; b lists the end position of every piece.
\* TryRange tries the ends E[lo], ..., E[hi] of piece k in order, by halves.
RECURSIVE MatchFrom(_, _, _, _), TryRange(_, _, _, _, _, _)
TryRange(pat, k, s, E, lo, hi) ==
    IF lo > hi THEN NoMatch
    ELSE IF lo = hi
    THEN LET r == MatchFrom(pat, k + 1, s, E[lo])
         IN  IF r.ok THEN [ok |-> TRUE, b |-> <<E[lo]>> \o r.b] ELSE NoMatch
    ELSE LET first == TryRange(pat, k, s, E, lo, (lo + hi) \div 2)
         IN  IF first.ok THEN first ELSE TryRange(pat, k, s, E, (lo + hi) \div 2 + 1, hi)
MatchFrom(pat, k, s, p) ==
    IF k > Len(pat) THEN [ok |-> TRUE, b |-> <<>>]
    ELSE LET E == PieceEnds(pat[k], s, p) IN TryRange(pat, k, s, E, 1, Len(E))

\* The text matched by piece k (1-based) of a successful match m of s.
Group(s, m, k) == SubSeq(s, (IF k = 1 THEN 0 ELSE m.b[k - 1]) + 1, m.b[k])

(***************************************************************************)
(* processInvoice, line 532: text.split('\n').map(l => l.trim())           *)
(*                               .filter(Boolean)                          *)
(***************************************************************************)
SplitOn(txt, sep) ==
    LET seps     == {i \in 1..Len(txt) : Ch(txt, i) = sep}
        n        == Cardinality(seps)
        bound(k) == IF k = 0 THEN 0
                    ELSE IF k = n + 1 THEN Len(txt) + 1
                    ELSE CHOOSE i \in seps : Cardinality({j \in seps : j <= i}) = k
    IN  [k \in 1..(n + 1) |-> SubSeq(txt, bound(k - 1) + 1, bound(k) - 1)]

MapTrim(ls) == [k \in 1..Len(ls) |-> Trim(ls[k])]

FilterNonEmpty(ls) == SelectSeq(ls, LAMBDA l : l # "")

SplitLinesKeepBlank(txt) == MapTrim(SplitOn(txt, "\n"))

SplitLines(txt) == FilterNonEmpty(MapTrim(SplitOn(txt, "\n")))

\* lines.slice(0, n) and lines.slice(-n)
FirstLines(ls, n) == SubSeq(ls, 1, Min(Len(ls), n))
LastLines(ls, n) == SubSeq(ls, Max(Len(ls) - n, 0) + 1, Len(ls))

\* line.replace(/\s{2,}/g, ' ')
CollapseSpaces(s) ==
    Concat([i \in 1..Len(s) |->
               IF Ch(s, i) \notin Whitespace THEN Ch(s, i)
               ELSE IF Ch(s, i - 1) \in Whitespace THEN ""
               ELSE IF Ch(s, i + 1) \in Whitespace THEN " "
               ELSE Ch(s, i)])

(***************************************************************************)
(* columnAliases (constructor) and findTableStart / findTableEnd           *)
(***************************************************************************)
ItemAliases == <<"item", "items", "description", "desc", "product", "products",
                 "particulars", "service", "services", "goods", "details", "name",
                 "commodity", "article", "specification">>
QuantityAliases == <<"qty", "quantity", "quan", "units", "unit", "nos", "no",
                     "amount", "count", "pcs", "pc", "ea", "each">>
RateAliases == <<"rate", "price", "unitprice", "unit price", "unit_price", "cost",
                 "each", "unit cost", "per unit", "unit rate", "net price">>
TotalAliases == <<"total", "amount", "linetotal", "line total", "sum", "value",
                  "ext price", "extended", "net worth", "line amount", "subtotal">>

\* new RegExp(aliases joined by '|', 'i').test(line)
AnyAlias(line, aliases) == \E k \in 1..Len(aliases) : Contains(line, aliases[k])

B2N(b) == IF b THEN 1 ELSE 0

HeaderWindow == 30
HeaderRoles == 2

\* matches, for the line in lower case
RoleMatches(line) ==
    B2N(AnyAlias(line, ItemAliases)) + B2N(AnyAlias(line, QuantityAliases))
      + B2N(AnyAlias(line, RateAliases)) + B2N(AnyAlias(line, TotalAliases))

IsHeader(line) == RoleMatches(ToLowerCase(line)) >= HeaderRoles


\* The loop of findTableStart over the indices lo..hi (0-based), by halves:
\* the first index whose line has enough roles, or -1.
RECURSIVE FindHeaderIn(_, _, _)
FindHeaderIn(ls, lo, hi) ==
    IF lo > hi THEN -1
    ELSE IF lo = hi THEN (IF IsHeader(ls[lo + 1]) THEN lo ELSE -1)
    ELSE LET first == FindHeaderIn(ls, lo, (lo + hi) \div 2)
         IN  IF first # -1 THEN first ELSE FindHeaderIn(ls, (lo + hi) \div 2 + 1, hi)

findTableStartWholeText(ls) == FindHeaderIn(ls, 0, Len(ls) - 1)

findTableStart(ls) == FindHeaderIn(ls, 0, Min(Len(ls), HeaderWindow) - 1)

FooterKeywords == <<"subtotal", "sub-total", "sub total", "grand total", "grandtotal",
                    "total due", "amount due", "tax", "vat", "gst", "thank you",
                    "thanks", "notes", "terms", "conditions", "payment", "please pay">>

IsFooter(line) == AnyAlias(ToLowerCase(line), FooterKeywords)

\* The loop of findTableEnd over the indices lo..hi (0-based), by halves: the
\* first index whose line holds a footer keyword, or -1.
RECURSIVE FindFooterIn(_, _, _)
FindFooterIn(ls, lo, hi) ==
    IF lo > hi THEN -1
    ELSE IF lo = hi THEN (IF IsFooter(ls[lo + 1]) THEN lo ELSE -1)
    ELSE LET first == FindFooterIn(ls, lo, (lo + hi) \div 2)
         IN  IF first # -1 THEN first ELSE FindFooterIn(ls, (lo + hi) \div 2 + 1, hi)

findTableEndFromTop(ls, start) ==
    LET first == FindFooterIn(ls, 0, Len(ls) - 1)
    IN  IF first = -1 THEN Len(ls) ELSE first

findTableEnd(ls, start) ==
    LET first == FindFooterIn(ls, Max(start + 1, 0), Len(ls) - 1)
    IN  IF first = -1 THEN Len(ls) ELSE first

(***************************************************************************)
(* DynamicPatternParser.extractParty                                       *)
(***************************************************************************)
\* The words of a keyword such as bill\s*to stand at position p: the position
\* after them, or -1.
RECURSIVE WordsEnd(_, _, _, _)
WordsEnd(s, p, words, k) ==
    IF k > Len(words) THEN p
    ELSE LET q == IF k = 1 THEN p ELSE p + Run(s, p, Whitespace)
         IN  IF LitAt(s, q, words[k]) THEN WordsEnd(s, q + Len(words[k]), words, k + 1)
             ELSE -1

PartySepChars == Whitespace \cup {":"}

\* [:\s]+(.+) from position e: the start of the captured text, or -1.
PartyCaptureStart(s, e) ==
    LET n == Run(s, e, PartySepChars)
    IN  IF e < 0 \/ n = 0 THEN -1
        ELSE IF e + n < Len(s) THEN e + n
        ELSE IF n >= 2 THEN e + n - 1
        ELSE -1

\* One party pattern tried with the match starting at position p: the start
\* of the captured text for the first keyword alternative that works, or -1.
PartyCaptureAt(s, p, alts) ==
    LET ok == {a \in 1..Len(alts) :
                  PartyCaptureStart(s, WordsEnd(s, p, alts[a], 1)) # -1}
    IN  IF ok = {} THEN -1
        ELSE PartyCaptureStart(s, WordsEnd(s, p, alts[MinOf(ok)], 1))

\* line.match(p) for a party pattern with keyword alternatives alts: m[1] of
\* the leftmost match, or "" when there is no match (a match always captures
\* at least one character).
PartyCapture(s, alts) ==
    LET low  == ToLowerCase(s)
        hits == {p \in 0..Len(s) : PartyCaptureAt(low, p, alts) # -1}
    IN  IF hits = {} THEN ""
        ELSE SubSeq(s, PartyCaptureAt(low, MinOf(hits), alts) + 1, Len(s))

PartyPatterns == <<
    << <<"bill", "to">>, <<"customer">>, <<"client">>, <<"sold", "to">> >>,
    << <<"company">>, <<"name">> >> >>

PartyWindow == 20
PartyMinLength == 3
PartyChars == WordChars \cup Whitespace \cup {"&", ".", "-"}

\* The two nested loops of extractParty: the first line, and for it the
\* first pattern, whose capture is long enough.
PartyOf(ls) ==
    LET hit(i, k) == Len(PartyCapture(ls[i], PartyPatterns[k])) > PartyMinLength
        rows      == {i \in 1..Len(ls) : \E k \in 1..Len(PartyPatterns) : hit(i, k)}
        i0        == MinOf(rows)
        k0        == MinOf({k \in 1..Len(PartyPatterns) : hit(i0, k)})
    IN  IF rows = {} THEN ""
        ELSE Trim(KeepOnly(PartyCapture(ls[i0], PartyPatterns[k0]), PartyChars))

extractParty(ls) == PartyOf(FirstLines(ls, PartyWindow))

(***************************************************************************)
(* DynamicPatternParser.extractInvoiceNumber                               *)
(***************************************************************************)
\* keyword \s* (alternatives) seps* ([A-Z0-9-]+), case ignored: the captured
\* text of the leftmost match, or "".  An empty alternative stands for an
\* optional piece left out.
NumberCaptureAt(s, p, keyword, alts, seps) ==
    LET low  == ToLowerCase(s)
        q    == p + Len(keyword) + Run(s, p + Len(keyword), Whitespace)
        ok   == {a \in 1..Len(alts) :
                    /\ LitAt(low, q, alts[a])
                    /\ Run(s, q + Len(alts[a]) + Run(s, q + Len(alts[a]), seps),
                           CodeChars) > 0}
        a    == MinOf(ok)
        c    == q + Len(alts[a]) + Run(s, q + Len(alts[a]), seps)
    IN  IF ~LitAt(low, p, keyword) \/ ok = {} THEN ""
        ELSE SubSeq(s, c + 1, c + Run(s, c, CodeChars))

NumberCapture(s, keyword, alts, seps) ==
    LET hits == {p \in 0..Len(s) : NumberCaptureAt(s, p, keyword, alts, seps) # ""}
    IN  IF hits = {} THEN ""
        ELSE NumberCaptureAt(s, MinOf(hits), keyword, alts, seps)

InvoiceNumberPatterns == <<
    [keyword |-> "invoice", alts |-> <<"no", "number", "#">>, seps |-> PartySepChars],
    [keyword |-> "quote",   alts |-> <<"no", "#">>,           seps |-> PartySepChars],
    [keyword |-> "order",   alts |-> <<"#", "">>,             seps |-> Whitespace] >>

InvoiceWindow == 25
InvoiceMinLength == 3

\* The two nested loops of extractInvoiceNumber: the first line, and for it
\* the first pattern, whose capture is long enough.
InvoiceNumberOf(ls) ==
    LET cap(i, k) == NumberCapture(ls[i], InvoiceNumberPatterns[k].keyword,
                                   InvoiceNumberPatterns[k].alts,
                                   InvoiceNumberPatterns[k].seps)
        hit(i, k) == Len(cap(i, k)) >= InvoiceMinLength
        rows      == {i \in 1..Len(ls) : \E k \in 1..Len(InvoiceNumberPatterns) : hit(i, k)}
        i0        == MinOf(rows)
        k0        == MinOf({k \in 1..Len(InvoiceNumberPatterns) : hit(i0, k)})
    IN  IF rows = {} THEN "" ELSE Trim(cap(i0, k0))

extractInvoiceNumber(ls) == InvoiceNumberOf(FirstLines(ls, InvoiceWindow))

(***************************************************************************)
(* DynamicPatternParser.extractDate.  new Date(text) and toISOString are   *)
(* the host's: which texts parse depends on the engine, and the day that   *)
(* toISOString shows depends on the time zone, so both are inputs.         *)
(***************************************************************************)
DateSeps == {"/", "-"}

\* The ways \d{1,2}, twice, can take its digits, in backtracking order.
DateOptions == << <<2, 2>>, <<2, 1>>, <<1, 2>>, <<1, 1>> >>

DateYearMin == 2
DateYearMax == 4

\* \d{1,2}[\/\-]\d{1,2}[\/\-]\d{2,4} from position p with a and b digits in
\* its first two groups
DateTry(s, p, a, b) ==
    /\ DigitsAt(s, p, a)
    /\ Ch(s, p + a + 1) \in DateSeps
    /\ DigitsAt(s, p + a + 1, b)
    /\ Ch(s, p + a + b + 2) \in DateSeps
    /\ DigitsAt(s, p + a + b + 2, DateYearMin)

NoDate == [ok |-> FALSE]

\* line.match(/(\d{1,2}[\/\-]\d{1,2}[\/\-]\d{2,4})/): the leftmost match, its
\* text and the texts of its three groups of digits.
DateMatch(s) ==
    LET hits == {p \in 0..Len(s) : \E o \in 1..Len(DateOptions) :
                    DateTry(s, p, DateOptions[o][1], DateOptions[o][2])}
        p0   == MinOf(hits)
        o0   == MinOf({o \in 1..Len(DateOptions) :
                          DateTry(s, p0, DateOptions[o][1], DateOptions[o][2])})
        a    == DateOptions[o0][1]
        b    == DateOptions[o0][2]
        n    == Min(Run(s, p0 + a + b + 2, Digits), DateYearMax)
    IN  IF hits = {} THEN NoDate
        ELSE [ok    |-> TRUE,
              text  |-> SubSeq(s, p0 + 1, p0 + a + b + 2 + n),
              first |-> SubSeq(s, p0 + 1, p0 + a),
              sep1  |-> Ch(s, p0 + a + 1),
              second |-> SubSeq(s, p0 + a + 2, p0 + a + b + 1),
              sep2  |-> Ch(s, p0 + a + b + 2),
              third |-> SubSeq(s, p0 + a + b + 3, p0 + a + b + 2 + n)]

IsLeap(y) == (y % 4 = 0 /\ y % 100 # 0) \/ y % 400 = 0

DaysIn(m, y) ==
    IF m = 2 THEN (IF IsLeap(y) THEN 29 ELSE 28)
    ELSE IF m \in {4, 6, 9, 11} THEN 30 ELSE 31

\* The engines differ on what new Date accepts.  Both read month/day/year
\* with slashes and a year of 2 or 4 digits (a year of 2 digits below 50 is
\* in 20xx, otherwise in 19xx); "lenient" also reads dashes, a year of 3
\* digits and a day past the end of the month (which rolls over into the
\* next month), "strict" gives Invalid Date for these.
DateEngines == {"lenient", "strict"}

InvalidDate == [valid |-> FALSE]

\* new Date(m[1]) for a match m, as local midnight of a day
NewDate(m, engine) ==
    LET mo   == DigitsValue(m.first)
        d    == DigitsValue(m.second)
        yy   == DigitsValue(m.third)
        y    == IF Len(m.third) = 2 THEN (IF yy < 50 THEN 2000 + yy ELSE 1900 + yy)
                ELSE yy
        odd  == m.sep1 # "/" \/ m.sep2 # "/" \/ Len(m.third) = 3 \/ d > DaysIn(mo, y)
    IN  IF mo < 1 \/ mo > 12 \/ d < 1 \/ d > 31 THEN InvalidDate
        ELSE IF odd /\ engine = "strict" THEN InvalidDate
        ELSE IF d > DaysIn(mo, y)
        THEN [valid |-> TRUE, y |-> IF mo = 12 THEN y + 1 ELSE y,
              m |-> IF mo = 12 THEN 1 ELSE mo + 1, d |-> d - DaysIn(mo, y)]
        ELSE [valid |-> TRUE, y |-> y, m |-> mo, d |-> d]

\* Local midnight seen in UTC: the same day in a zone at or behind UTC, the
\* day before in a zone ahead of it.
TimeZones == {"atOrBehindUTC", "aheadOfUTC"}

UTCDay(dt, zone) ==
    IF zone = "atOrBehindUTC" THEN dt
    ELSE IF dt.d > 1 THEN [dt EXCEPT !.d = dt.d - 1]
    ELSE IF dt.m > 1 THEN [dt EXCEPT !.m = dt.m - 1, !.d = DaysIn(dt.m - 1, dt.y)]
    ELSE [dt EXCEPT !.y = dt.y - 1, !.m = 12, !.d = 31]

DigitChars == "0123456789"

\* n written with at least w digits
Padded(n, w) ==
    LET k == IF n >= 1000 THEN 4 ELSE IF n >= 100 THEN 3 ELSE IF n >= 10 THEN 2 ELSE 1
        digit(i) == Ch(DigitChars, ((n \div (10 ^ (Max(k, w) - i))) % 10) + 1)
    IN  Concat([i \in 1..Max(k, w) |-> digit(i)])

\* d.toISOString().split('T')[0]
ISODate(dt, zone) ==
    LET u == UTCDay(dt, zone)
    IN  (IF u.y < 0 THEN "-" \o Padded(-u.y, 6) ELSE Padded(u.y, 4))
           \o "-" \o Padded(u.m, 2) \o "-" \o Padded(u.d, 2)

DateWindow == 25

\* The loop of extractDate over ls[lo], ..., ls[hi] in order, by halves: the
\* ISO date of the first line whose match parses, or "".
RECURSIVE DateIn(_, _, _, _, _)
DateIn(ls, lo, hi, engine, zone) ==
    IF lo > hi THEN ""
    ELSE IF lo = hi
    THEN (IF DateMatch(ls[lo]).ok /\ NewDate(DateMatch(ls[lo]), engine).valid
          THEN ISODate(NewDate(DateMatch(ls[lo]), engine), zone) ELSE "")
    ELSE LET first == DateIn(ls, lo, (lo + hi) \div 2, engine, zone)
         IN  IF first # "" THEN first
             ELSE DateIn(ls, (lo + hi) \div 2 + 1, hi, engine, zone)

\* today: new Date().toISOString().split('T')[0] at the time of the call
extractDate(ls, engine, zone, today) ==
    LET found == DateIn(FirstLines(ls, DateWindow), 1, Min(Len(ls), DateWindow),
                        engine, zone)
    IN  IF found # "" THEN found ELSE today

(***************************************************************************)
(* DynamicPatternParser.extractTotals                                      *)
(***************************************************************************)
TotalsGroupSeps == Whitespace \cup {",", "."}

\* /\d+(?:[,.\s]\d{3})*(?:[.,]\d{2})?/ from a digit at position p + 1: nothing
\* follows the token in the pattern, so the greedy choices stand.
TotalsTokenEnd(s, p) ==
    LET d == p + Run(s, p, Digits)
        g == d + 4 * GroupCount(s, d, TotalsGroupSeps)
    IN  Frac2Ends(s, g, {".", ","})[1]

\* line.matchAll(...): the tokens of s from position p on, left to right.
RECURSIVE TotalsTokens(_, _)
TotalsTokens(s, p) ==
    LET ds == {j \in (p + 1)..Len(s) : Ch(s, j) \in Digits}
        j  == CHOOSE x \in ds : \A y \in ds : x <= y
        e  == TotalsTokenEnd(s, j - 1)
    IN  IF ds = {} THEN <<>>
        ELSE <<SubSeq(s, j, e)>> \o TotalsTokens(s, e)

\* /subtotal|sub.total/i
IsSubtotalLine(line) ==
    LET low == ToLowerCase(line)
    IN  \/ Contains(low, "subtotal")
        \/ \E p \in 0..(Len(low) - 9) : LitAt(low, p, "sub") /\ LitAt(low, p + 4, "total")

\* /tax|gst|vat/i
IsTaxLine(line) ==
    LET low == ToLowerCase(line)
    IN  Contains(low, "tax") \/ Contains(low, "gst") \/ Contains(low, "vat")

\* /(grand\s*)?total|amount\s*due/i
IsGrandTotalLine(line) ==
    LET low == ToLowerCase(line)
    IN  \/ Contains(low, "total")
        \/ \E p \in 0..Len(low) : WordsEnd(low, p, <<"amount", "due">>, 1) # -1

TotalsWindow == 20

NoTotals == [subtotal |-> 0, tax |-> 0, grandTotal |-> 0]

\* One turn of the loop of extractTotals.
TotalsStep(tot, line) ==
    LET toks == TotalsTokens(line, 0)
        val  == parseNumber(toks[Len(toks)])
    IN  IF Len(toks) = 0 THEN tot
        ELSE [subtotal   |-> IF IsSubtotalLine(line) THEN val ELSE tot.subtotal,
              tax        |-> IF IsTaxLine(line) THEN val ELSE tot.tax,
              grandTotal |-> IF IsGrandTotalLine(line) THEN val ELSE tot.grandTotal]

\* The loop of extractTotals over ls[lo], ..., ls[hi] in order, by halves.
RECURSIVE TotalsRange(_, _, _, _)
TotalsRange(tot, ls, lo, hi) ==
    IF lo > hi THEN tot
    ELSE IF lo = hi THEN TotalsStep(tot, ls[lo])
    ELSE TotalsRange(TotalsRange(tot, ls, lo, (lo + hi) \div 2), ls,
                     (lo + hi) \div 2 + 1, hi)

TotalsOver(ls) == TotalsRange(NoTotals, ls, 1, Len(ls))

extractTotalsAllLines(ls) == TotalsOver(ls)

extractTotals(ls) == TotalsOver(LastLines(ls, TotalsWindow))

(***************************************************************************)
(* DynamicPatternParser.generateItemCode                                   *)
(***************************************************************************)
RECURSIVE SplitSpaces(_)
SplitSpaces(s) ==
    LET ws == {i \in 1..Len(s) : Ch(s, i) \in Whitespace}
        i  == CHOOSE x \in ws : \A y \in ws : x <= y
    IN  IF ws = {} THEN <<s>>
        ELSE <<SubSeq(s, 1, i - 1)>>
               \o SplitSpaces(SubSeq(s, i + Run(s, i - 1, Whitespace), Len(s)))

ToUpperCase(s) == Concat([i \in 1..Len(s) |-> ToUpperCh(Ch(s, i))])

CodeWords == 3
CodeLetters == 3

generateItemCode(name) ==
    LET words == SplitSpaces(KeepOnly(name, WordChars \cup Whitespace))
        first == SubSeq(words, 1, Min(Len(words), CodeWords))
        code  == Concat([k \in 1..Len(first) |->
                          ToUpperCase(SubSeq(first[k], 1, Min(Len(first[k]), CodeLetters)))])
    IN  IF code = "" THEN "ITEM" ELSE code

(***************************************************************************)
(* The assembly at the end of DynamicPatternParser.processInvoice          *)
(***************************************************************************)
RECURSIVE SumAmounts(_)
SumAmounts(its) ==
    IF its = <<>> THEN 0 ELSE Head(its).amount + SumAmounts(Tail(its))

\* a || b on numbers
OrElse(a, b) == IF a \in {0, Null} THEN b ELSE a

AssembleItemsOnly(pty, invNo, dt, its, tot, now) ==
    [party          |-> IF pty = "" THEN "Unknown Customer" ELSE pty,
     posting_date   |-> dt,
     due_date       |-> dt,
     invoice_number |-> IF invNo = "" THEN "INV-" \o now ELSE invNo,
     items          |-> [k \in 1..Len(its) |->
                            [item_code |-> its[k].itemCode,
                             item_name |-> its[k].itemName,
                             qty |-> its[k].qty, rate |-> its[k].rate,
                             amount |-> its[k].amount, uom |-> "Nos"]],
     total          |-> SumAmounts(its),
     grand_total    |-> OrElse(tot.grandTotal, SumAmounts(its))]

Assemble(pty, invNo, dt, its, tot, now) ==
    LET itemsTotal == SumAmounts(its)
        total      == OrElse(tot.subtotal, itemsTotal)
        grandTotal == OrElse(tot.grandTotal, total)
    IN  [party          |-> IF pty = "" THEN "Unknown Customer" ELSE pty,
         posting_date   |-> dt,
         due_date       |-> dt,
         invoice_number |-> IF invNo = "" THEN "INV-" \o now ELSE invNo,
         items          |-> [k \in 1..Len(its) |->
                                [item_code |-> its[k].itemCode,
                                 item_name |-> its[k].itemName,
                                 qty |-> its[k].qty, rate |-> its[k].rate,
                                 amount |-> its[k].amount, uom |-> "Nos"]],
         total          |-> total,
         grand_total    |-> grandTotal]

(***************************************************************************)
(* The values the variables of an operation hold while another             *)
(* specification runs.                                                     *)
(***************************************************************************)
NoRecord == [party |-> "", posting_date |-> "", due_date |-> "",
             invoice_number |-> "", items |-> <<>>,
             total |-> 0, grand_total |-> 0]

NumIdle == tok = "" /\ num = Null

ValidateIdle ==
    /\ cand = [name |-> "", qty |-> Null, rate |-> Null, total |-> Null]
    /\ verdict = [ok |-> FALSE, warned |-> FALSE]

InvoiceIdle ==
    /\ text = ""
    /\ lines = <<>>
    /\ party = ""
    /\ invoiceNumber = ""
    /\ date = ""
    /\ startIdx = -1
    /\ endIdx = 0
    /\ idx = 0
    /\ items = <<>>
    /\ itemLine = <<>>
    /\ totals = NoTotals
    /\ record = NoRecord

NoWorker == 0
NoFile == ""
NoInvoice == NoRecord

Callers == {"processImage", "direct"}
Tasks == Callers \cup {"cleanup"}

IdleCall == [at |-> "idle", url |-> FALSE, used |-> NoWorker]

\* The review of a record just put on display, and of no record
FreshReview(invoice) ==
    [operated |-> FALSE, edited |-> [k \in 1..Len(invoice.items) |-> FALSE]]

NoReview == FreshReview(NoInvoice)

SessionIdle ==
    /\ worker = NoWorker
    /\ created = 0
    /\ liveWorkers = {}
    /\ call = [c \in Tasks |-> IdleCall]

PageIdle ==
    /\ imageFile = NoFile
    /\ isProcessing = FALSE
    /\ processingStatus = ""
    /\ processedInvoice = NoInvoice
    /\ lowConfidenceFields = <<>>
    /\ toast = ""
    /\ review = NoReview

NoScreen == ""
NoUser == ""
MaxTasks == 2
FreeTask == [at |-> "idle", rest |-> "end"]

ShellIdle ==
    /\ activeScreen = NoScreen
    /\ isAuthenticated = FALSE
    /\ currentUser = NoUser
    /\ isDatabaseConnected = FALSE
    /\ storedUser = NoUser
    /\ task = [k \in 1..MaxTasks |-> FreeTask]

HardenedIdle ==
    /\ currentDesc = ""
    /\ tableStarted = FALSE
    /\ outcome = <<>>

(***************************************************************************)
(* Specification of parseNumber alone: a token is built one character at   *)
(* a time from the characters a numeric token can hold, then parsed.       *)
(***************************************************************************)
MaxTokLen == 4
TokChars == {"1", "2", "5", ",", ".", " "}
ListedTokens == {"1,234.56", "1.234,56", "1 234,56", "45", ",45", "1,234"}

\* Tokens are typed from one of these: the empty token, and a token that
\* already holds a group of thousands.
TokPrefixes == {"", "1,234,"}

InitNum ==
    /\ pc = "token"
    /\ tok \in TokPrefixes \cup ListedTokens
    /\ num = Null
    /\ ValidateIdle
    /\ InvoiceIdle
    /\ SessionIdle
    /\ PageIdle
    /\ ShellIdle
    /\ HardenedIdle

TypeChar ==
    /\ pc = "token"
    /\ \E pre \in TokPrefixes :
          /\ Len(tok) >= Len(pre) /\ SubSeq(tok, 1, Len(pre)) = pre
          /\ Len(tok) - Len(pre) < MaxTokLen
    /\ \E c \in TokChars : tok' = tok \o c
    /\ UNCHANGED <<pc, num, validateVars, invoiceVars, sessionVars, pageVars, shellVars,
                   hardenedVars>>

ParseNumber ==
    /\ pc = "token"
    /\ num' = parseNumber(tok)
    /\ pc' = "parsed"
    /\ UNCHANGED <<tok, validateVars, invoiceVars, sessionVars, pageVars, shellVars, hardenedVars>>

NextNum == TypeChar \/ ParseNumber

SpecNum == InitNum /\ [][NextNum]_vars

\* C2: parseNumber gives 1234.56 for "1,234.56", "1.234,56" and "1 234,56",
\* 45 for "45", 0.45 for ",45" and 1234 for "1,234".
C2_ListedTokens ==
    pc = "parsed" =>
        /\ (tok \in {"1,234.56", "1.234,56", "1 234,56"} => num = 123456)
        /\ (tok = "45" => num = 4500)
        /\ (tok = ",45" => num = 45)
        /\ (tok = "1,234" => num = 123400)

C2_Witness == pc = "parsed" /\ tok = "1 234,56" /\ num = 123456

(***************************************************************************)
(* DynamicPatternParser.validateItem.  ok is the value returned; warned    *)
(* records that the "Math check" warning was logged.  Quantities are in    *)
(* hundredths, so qty * rate counts ten-thousandths.                       *)
(***************************************************************************)

QtyLimit == 100000
RateLimit == 1000000
TotalLimit == 10000000

Verdict(ok, warned) == [ok |-> ok, warned |-> warned]

MathCheckFails(item) ==
    LET calculated == item.qty * item.rate
        diff       == Abs(calculated - item.total * Scale)
        tolerance  == Max(item.total * 15, 1 * Scale * Scale)
        rounded    == (calculated + 50) \div Scale
    IN  diff > tolerance /\ ~(Abs(rounded - item.total) <= 2)

validateItemAnyName(item) ==
    IF item.qty \in {Null, 0} \/ item.rate \in {Null, 0} \/ item.total \in {Null, 0}
    THEN Verdict(FALSE, FALSE)
    ELSE IF item.qty <= 0 \/ item.rate <= 0 \/ item.total <= 0
    THEN Verdict(FALSE, FALSE)
    ELSE IF item.qty > QtyLimit * Scale \/ item.rate > RateLimit * Scale
            \/ item.total > TotalLimit * Scale
    THEN Verdict(FALSE, FALSE)
    ELSE Verdict(TRUE, MathCheckFails(item))

validateItemStrict(item) ==
    IF Len(item.name) < 2 THEN Verdict(FALSE, FALSE)
    ELSE IF item.qty \in {Null, 0} \/ item.rate \in {Null, 0} \/ item.total \in {Null, 0}
    THEN Verdict(FALSE, FALSE)
    ELSE IF item.qty <= 0 \/ item.rate <= 0 \/ item.total <= 0
    THEN Verdict(FALSE, FALSE)
    ELSE IF item.qty > QtyLimit * Scale \/ item.rate > RateLimit * Scale
            \/ item.total > TotalLimit * Scale
    THEN Verdict(FALSE, FALSE)
    ELSE IF MathCheckFails(item) THEN Verdict(FALSE, TRUE)
    ELSE Verdict(TRUE, FALSE)

validateItem(item) ==
    IF Len(item.name) < 2 THEN Verdict(FALSE, FALSE)
    ELSE IF item.qty \in {Null, 0} \/ item.rate \in {Null, 0} \/ item.total \in {Null, 0}
    THEN Verdict(FALSE, FALSE)
    ELSE IF item.qty <= 0 \/ item.rate <= 0 \/ item.total <= 0
    THEN Verdict(FALSE, FALSE)
    ELSE IF item.qty > QtyLimit * Scale \/ item.rate > RateLimit * Scale
            \/ item.total > TotalLimit * Scale
    THEN Verdict(FALSE, FALSE)
    ELSE Verdict(TRUE, MathCheckFails(item))

(***************************************************************************)
(* DynamicPatternParser.generateAllPatterns: the bank of item-line         *)
(* patterns, in the order in which they are pushed.  regex lists the       *)
(* pieces of the regular expression; code, desc, qty, rate and total are   *)
(* the pieces whose text extract reads (0: extract does not read one).     *)
(***************************************************************************)
Pattern(n, re, code, desc, qty, rate, total) ==
    [name |-> n, regex |-> re, code |-> code, desc |-> desc,
     qty |-> qty, rate |-> rate, total |-> total]

generatedPatterns == <<
    Pattern("ID_ItemCode_Description_Qty_Rate_Total",
            <<"id", "idsep", "code", "ws", "desc", "ws", "num", "ws", "num", "ws",
              "num", "end">>, 3, 5, 7, 9, 11),
    Pattern("ID_Description_Qty_Rate_Total",
            <<"id", "idsep", "desc", "ws", "num", "ws", "num", "ws", "num", "end">>,
            0, 3, 5, 7, 9),
    Pattern("Qty_Description_Rate_Total",
            <<"num", "ws", "desc", "ws", "num", "ws", "num", "end">>, 0, 3, 1, 5, 7),
    Pattern("Description_Qty_Rate_Total",
            <<"desc", "ws", "num", "ws", "num", "ws", "num", "end">>, 0, 1, 3, 5, 7),
    Pattern("Description_Rate_Total",
            <<"desc", "ws", "num", "ws", "num", "end">>, 0, 1, 0, 3, 5),
    Pattern("European_With_Unit",
            <<"optid", "ws0", "desc", "ws", "num", "ws", "unit", "ws", "num", "ws",
              "num">>, 0, 3, 5, 9, 11),
    Pattern("Description_Total_Only",
            <<"desc", "ws", "num", "end">>, 0, 1, 0, 0, 3) >>

ExtractNoDefaultQty(pattern, s, m) ==
    LET total == parseNumber(Group(s, m, pattern.total))
    IN  [name  |-> IF pattern.code # 0
                   THEN Trim(Group(s, m, pattern.code) \o " " \o Group(s, m, pattern.desc))
                   ELSE Trim(Group(s, m, pattern.desc)),
         qty   |-> IF pattern.qty = 0 THEN 0
                   ELSE parseNumber(Group(s, m, pattern.qty)),
         rate  |-> IF pattern.rate = 0 THEN total
                   ELSE parseNumber(Group(s, m, pattern.rate)),
         total |-> total]

\* pattern.extract(match)
Extract(pattern, s, m) ==
    LET total == parseNumber(Group(s, m, pattern.total))
    IN  [name  |-> IF pattern.code # 0
                   THEN Trim(Group(s, m, pattern.code) \o " " \o Group(s, m, pattern.desc))
                   ELSE Trim(Group(s, m, pattern.desc)),
         qty   |-> IF pattern.qty = 0 THEN 1 * Scale
                   ELSE parseNumber(Group(s, m, pattern.qty)),
         rate  |-> IF pattern.rate = 0 THEN total
                   ELSE parseNumber(Group(s, m, pattern.rate)),
         total |-> total]

NoItem == [found |-> FALSE]

\* The loop with its break after the first pattern that matches, valid or not
TryPatternsBreakOnMatch(cleanLine, k) ==
    LET M == {j \in k..Len(generatedPatterns) :
                 MatchFrom(generatedPatterns[j].regex, 1, cleanLine, 0).ok}
    IN  IF M = {} THEN NoItem
        ELSE IF validateItem(Extract(generatedPatterns[MinOf(M)], cleanLine,
                    MatchFrom(generatedPatterns[MinOf(M)].regex, 1, cleanLine, 0))).ok
        THEN [found |-> TRUE, pattern |-> generatedPatterns[MinOf(M)].name,
              item |-> Extract(generatedPatterns[MinOf(M)], cleanLine,
                         MatchFrom(generatedPatterns[MinOf(M)].regex, 1, cleanLine, 0))]
        ELSE NoItem

\* The loop over the pattern bank for one line, from pattern k on: the item
\* of the first pattern that matches the line and whose extract validates.
RECURSIVE TryPatterns(_, _)
TryPatterns(cleanLine, k) ==
    IF k > Len(generatedPatterns) THEN NoItem
    ELSE LET pattern == generatedPatterns[k]
             m       == MatchFrom(pattern.regex, 1, cleanLine, 0)
         IN  IF m.ok /\ validateItem(Extract(pattern, cleanLine, m)).ok
             THEN [found |-> TRUE, pattern |-> pattern.name,
                   item |-> Extract(pattern, cleanLine, m)]
             ELSE TryPatterns(cleanLine, k + 1)

(***************************************************************************)
(* Specification of validateItem alone: a candidate is drawn field by      *)
(* field, then validated.                                                  *)
(***************************************************************************)
NamePool  == {"", "W", "Widget", "Blue widget kit box", "12 34", "#!"}
QtyPool   == {Null, 0, 100, 200, 300, 10000001}
RatePool  == {Null, 0, 1000, 1500, 100000001}
TotalPool == {Null, 0, 3000, 3150, 5000, 1000000001}

Candidate(n, q, r, t) == [name |-> n, qty |-> q, rate |-> r, total |-> t]

InitValidate ==
    /\ pc = "candidate"
    /\ cand \in {Candidate(n, q, r, t) :
                    n \in NamePool, q \in QtyPool, r \in RatePool, t \in TotalPool}
    /\ verdict = Verdict(FALSE, FALSE)
    /\ NumIdle
    /\ InvoiceIdle
    /\ SessionIdle
    /\ PageIdle
    /\ ShellIdle
    /\ HardenedIdle

\* items.push({...}) of extractItems
ItemOf(extracted) ==
    [itemName |-> extracted.name,
     itemCode |-> generateItemCode(extracted.name),
     qty      |-> extracted.qty,
     rate     |-> extracted.rate,
     amount   |-> extracted.total]

\* if (this.validateItem(extracted)) { items.push(...) }
Validate ==
    /\ pc = "candidate"
    /\ verdict' = validateItem(cand)
    /\ items' = IF validateItem(cand).ok THEN Append(items, ItemOf(cand)) ELSE items
    /\ pc' = "validated"
    /\ UNCHANGED <<cand, numVars, text, lines, party, invoiceNumber, startIdx, endIdx,
                   idx, itemLine, totals, record, date, sessionVars, pageVars, shellVars,
                   hardenedVars>>

NextValidate == Validate

SpecValidate == InitValidate /\ [][NextValidate]_vars

\* C3 (as stated): validateItem accepts 2 x 15.00 = 30.00 and 3 x 10.00 = 31.50
\* and rejects 3 x 10.00 = 50.00.
C3_AsStated ==
    pc = "validated" /\ cand.name = "Widget" =>
        /\ (cand = Candidate("Widget", 200, 1500, 3000) => verdict.ok)
        /\ (cand = Candidate("Widget", 300, 1000, 3150) => verdict.ok)
        /\ (cand = Candidate("Widget", 300, 1000, 5000) => ~verdict.ok)

\* C3 (amended): validateItem accepts all three candidates; 3 x 10.00 = 50.00
\* is outside the tolerance with no penny-rounding match, which logs a warning
\* and nothing more, while the other two are accepted without a warning.
C3_AcceptsWithWarning ==
    pc = "validated" /\ cand.name = "Widget" =>
        /\ (cand = Candidate("Widget", 200, 1500, 3000) => verdict = Verdict(TRUE, FALSE))
        /\ (cand = Candidate("Widget", 300, 1000, 3150) => verdict = Verdict(TRUE, FALSE))
        /\ (cand = Candidate("Widget", 300, 1000, 5000) => verdict = Verdict(TRUE, TRUE))

C3_Witness ==
    pc = "validated" /\ cand = Candidate("Widget", 300, 1000, 5000) /\ verdict.warned

\* The hard rules of validateItem as the specification lists them: a name of
\* at least 2 characters, quantity, rate and amount present, finite and
\* positive, and none above its limit.
HardRulesPass(c) ==
    /\ Len(c.name) >= 2
    /\ c.qty # Null /\ c.rate # Null /\ c.total # Null
    /\ c.qty > 0 /\ c.rate > 0 /\ c.total > 0
    /\ c.qty <= 100000 * Scale /\ c.rate <= 1000000 * Scale /\ c.total <= 10000000 * Scale

OutsideTolerance(c) ==
    Abs(c.qty * c.rate - c.total * Scale) > Max(c.total * 15, Scale * Scale)

\* C11: every candidate that passes the hard rules is accepted by validateItem
\* and pushed to the item list, also when its amount differs from quantity x
\* rate by more than the tolerance.
C11_NeverDroppedForTolerance ==
    (pc = "validated" /\ HardRulesPass(cand)) =>
        /\ verdict.ok
        /\ Len(items) = 1
        /\ items[1].itemName = cand.name /\ items[1].qty = cand.qty
        /\ items[1].rate = cand.rate /\ items[1].amount = cand.total

C11_Witness ==
    /\ pc = "validated"
    /\ HardRulesPass(cand)
    /\ OutsideTolerance(cand)
    /\ verdict.warned
    /\ Len(items) = 1

\* C12: validateItem rejects every candidate whose name has fewer than 2
\* characters, or whose quantity, rate or amount is missing, not finite or not
\* positive, or above its limit (100,000 / 1,000,000 / 10,000,000), and a
\* rejected candidate is not pushed to the item list.
C12_HardRulesReject ==
    (pc = "validated" /\ ~HardRulesPass(cand)) => (~verdict.ok /\ items = <<>>)

C12_Witness ==
    /\ pc = "validated"
    /\ Len(cand.name) >= 2 /\ cand.qty > 0 /\ cand.rate > 0
    /\ cand.total > 10000000 * Scale
    /\ ~verdict.ok
    /\ items = <<>>

(***************************************************************************)
(* DynamicPatternParser.processInvoice, from the recognized text to the    *)
(* record returned.  The asynchronous recognition is the step Recognize,   *)
(* which delivers one of Texts; every later step is one call of            *)
(* processInvoice, and extractItems takes one step per line of its loop.   *)
(***************************************************************************)
MaxLines == 3

LinePool == {"Description Qty Rate Total", " Widget 2  15.00 30.00 ", "Subtotal: 80.00",
             "Total 95.50", "Total due on receipt", "Invoice No: 12345"}

RECURSIVE TextsOfLength(_)
TextsOfLength(n) ==
    IF n = 1 THEN LinePool
    ELSE {t \o "\n" \o l : t \in TextsOfLength(n - 1), l \in LinePool}

Filler == "ab"
Fill(k) == Concat([i \in 1..k |-> Filler \o "\n"])

EndToEndText ==
    "Bill To: Acme Corp\nItem Qty Rate Total\nWidget 2 15.00 30.00\n"
      \o "Service Fee 50.00 50.00\nSubtotal: 80.00\nGrand Total: 80.00"

LocaleLine == "HP Computer 5,00 each 37,75 188,75"
LocaleText == "Description Qty Rate Total\n" \o LocaleLine

WindowTexts ==
    {Fill(k) \o "Description Qty Rate Total\nWidget 2 15.00 30.00" :
        k \in {HeaderWindow - 1, HeaderWindow}}
      \cup {"Total 99.00\n" \o Fill(k) : k \in {TotalsWindow - 1, TotalsWindow}}

BlankLinesText == "  \n\n Widget 2  15.00 30.00 \n"
TaxText == "VAT 5.00\nAmount Due 50.00"

PartyShortText == "Customer: Ab#!"

\* Dates: month first, day first, with dashes and a short year, past the end
\* of the month, a day-first date above a month-first one, and a date on the
\* last line of the window of extractDate and on the line after it.
DateTexts ==
    {"Date: 12/25/2023", "Date: 25/12/2023", "Date: 1-2-23", "Date: 2/30/2024",
     "Due 25/12/2023\nDate: 12/25/2023", "Date: 1/1/2024"}
      \cup {Fill(k) \o "Date: 12/25/2023" : k \in {DateWindow - 1, DateWindow}}

\* The day on which the invoice is processed
Todays == {"2023-11-14"}

\* A line that the pattern with a quantity matches with quantity 0
FallThroughText == "Description Qty Rate Total\nWidget 2 15.00 30.00\nGadget 0 15.00 30.00"

Texts == {"", EndToEndText, LocaleText, BlankLinesText, TaxText, PartyShortText,
          FallThroughText}
           \cup WindowTexts
           \cup DateTexts
           \cup UNION {TextsOfLength(n) : n \in 1..MaxLines}

Clock == {"1700000000000", "1700000000001"}

MinLineLength == 5
HeaderWords == {"id", "no", "item", "description", "qty", "quantity", "rate", "price",
                "total", "amount"}

Init ==
    /\ pc = "idle"
    /\ NumIdle
    /\ ValidateIdle
    /\ InvoiceIdle
    /\ SessionIdle
    /\ PageIdle
    /\ ShellIdle
    /\ HardenedIdle

\* const text = await this.extractText(imageFile); const lines = ...
Recognize ==
    /\ pc = "idle"
    /\ \E t \in Texts : text' = t /\ lines' = SplitLines(t)
    /\ pc' = "party"
    /\ UNCHANGED <<numVars, validateVars, party, invoiceNumber, startIdx, endIdx, idx,
                   items, itemLine, totals, record, date, sessionVars, pageVars, shellVars,
                   hardenedVars>>

ExtractParty ==
    /\ pc = "party"
    /\ party' = extractParty(lines)
    /\ pc' = "invoiceNumber"
    /\ UNCHANGED <<numVars, validateVars, text, lines, invoiceNumber, startIdx, endIdx,
                   idx, items, itemLine, totals, record, date, sessionVars, pageVars,
                   shellVars, hardenedVars>>

ExtractInvoiceNumber ==
    /\ pc = "invoiceNumber"
    /\ invoiceNumber' = extractInvoiceNumber(lines)
    /\ pc' = "date"
    /\ UNCHANGED <<numVars, validateVars, text, lines, party, startIdx, endIdx, idx,
                   items, itemLine, totals, record, date, sessionVars, pageVars, shellVars,
                   hardenedVars>>

\* const date = this.extractDate(lines), on whatever engine, in whatever time
\* zone and on whatever day the call is made
ExtractDate ==
    /\ pc = "date"
    /\ \E engine \in DateEngines, zone \in TimeZones, today \in Todays :
           date' = extractDate(lines, engine, zone, today)
    /\ pc' = "items"
    /\ UNCHANGED <<numVars, validateVars, text, lines, party, invoiceNumber, startIdx,
                   endIdx, idx, items, itemLine, totals, record, sessionVars, pageVars,
                   shellVars, hardenedVars>>

\* extractItems up to its loop: the table bounds and the slice of item lines
ExtractItemsBegin ==
    /\ pc = "items"
    /\ startIdx' = findTableStart(lines)
    /\ endIdx' = findTableEnd(lines, findTableStart(lines))
    /\ idx' = Max(findTableStart(lines) + 1, 0)
    /\ items' = <<>>
    /\ itemLine' = <<>>
    /\ pc' = "itemLoop"
    /\ UNCHANGED <<numVars, validateVars, text, lines, party, invoiceNumber, totals,
                   record, date, sessionVars, pageVars, shellVars, hardenedVars>>

\* What one turn of the loop of extractItems pushes for a line.
ItemOfLine(line) ==
    LET cleanLine == Trim(CollapseSpaces(line))
    IN  IF Len(line) < MinLineLength THEN NoItem
        ELSE IF ToLowerCase(cleanLine) \in HeaderWords THEN NoItem
        ELSE TryPatterns(cleanLine, 1)

ItemLine ==
    /\ pc = "itemLoop"
    /\ idx < endIdx
    /\ LET r == ItemOfLine(lines[idx + 1])
       IN  IF r.found
           THEN /\ items' = Append(items, [itemName |-> r.item.name,
                                           itemCode |-> generateItemCode(r.item.name),
                                           qty      |-> r.item.qty,
                                           rate     |-> r.item.rate,
                                           amount   |-> r.item.total])
                /\ itemLine' = Append(itemLine, idx)
           ELSE UNCHANGED <<items, itemLine>>
    /\ idx' = idx + 1
    /\ UNCHANGED <<pc, numVars, validateVars, text, lines, party, invoiceNumber,
                   startIdx, endIdx, totals, record, date, sessionVars, pageVars,
                   shellVars, hardenedVars>>

\* items.push({...}) for a line that a pattern matched, nothing for another
PushedItem(r) ==
    IF r.found
    THEN <<[itemName |-> r.item.name,
            itemCode |-> generateItemCode(r.item.name),
            qty      |-> r.item.qty,
            rate     |-> r.item.rate,
            amount   |-> r.item.total]>>
    ELSE <<>>

\* The loop of extractItems over lines[lo + 1], ..., lines[hi]: pushed[k] is
\* the list after the turn for lines[k]
ItemsBetween(ls, lo, hi) ==
    LET pushed[k \in lo..Max(lo, hi)] ==
            IF k = lo THEN <<>> ELSE pushed[k - 1] \o PushedItem(ItemOfLine(ls[k]))
    IN  pushed[Max(lo, hi)]

\* extractItems(lines) as a whole
extractItems(ls) ==
    ItemsBetween(ls, Max(findTableStart(ls) + 1, 0), findTableEnd(ls, findTableStart(ls)))

\* the loop is over: extractItems returns, extractTotals runs
ExtractTotals ==
    /\ pc = "itemLoop"
    /\ idx >= endIdx
    /\ totals' = extractTotals(lines)
    /\ pc' = "assemble"
    /\ UNCHANGED <<numVars, validateVars, text, lines, party, invoiceNumber, startIdx,
                   endIdx, idx, items, itemLine, record, date, sessionVars, pageVars,
                   shellVars, hardenedVars>>

AssembleRecord ==
    /\ pc = "assemble"
    /\ \E now \in Clock : record' = Assemble(party, invoiceNumber, date, items, totals, now)
    /\ pc' = "done"
    /\ UNCHANGED <<numVars, validateVars, text, lines, party, invoiceNumber, startIdx,
                   endIdx, idx, items, itemLine, totals, date, sessionVars, pageVars,
                   shellVars, hardenedVars>>

Next ==
    \/ Recognize
    \/ ExtractParty
    \/ ExtractInvoiceNumber
    \/ ExtractDate
    \/ ExtractItemsBegin
    \/ ItemLine
    \/ ExtractTotals
    \/ AssembleRecord

Spec == Init /\ [][Next]_vars

(***************************************************************************)
(* The recognition session of one parser object and the page that uses it. *)
(* Two callers use the object: the page's processImage, which calls        *)
(* processInvoice, and a direct caller of extractText; a third task calls  *)
(* cleanup.  A step runs a call from one await to the next.                *)
(***************************************************************************)
MaxWorkers == 2

Images == {"scan.png"}

SessionTexts == {"", EndToEndText}

\* Date.now() when processInvoice assembles its record
SessionClock == {"1700000000000"}

\* identifyLowConfidenceFields(invoice)
identifyLowConfidenceFields(invoice) ==
    (IF invoice.party = "" \/ Len(invoice.party) < 3 THEN <<"Customer">> ELSE <<>>)
      \o (IF invoice.invoice_number = "" THEN <<"Invoice Number">> ELSE <<>>)
      \o (IF invoice.posting_date = "" THEN <<"Date">> ELSE <<>>)
      \o (IF Len(invoice.items) = 0 THEN <<"Items">> ELSE <<>>)

\* extractText from its start to its first await: without a worker it waits
\* for initialize, which waits for createWorker; with one it makes the object
\* URL and waits for recognize.
EnterExtractText(c) ==
    IF worker = NoWorker
    THEN /\ created < MaxWorkers
         /\ call' = [call EXCEPT ![c] = [at |-> "createWorker", url |-> FALSE,
                                         used |-> NoWorker],
                                 !["cleanup"].at = IF @ = "done" THEN "idle" ELSE @]
    ELSE call' = [call EXCEPT ![c] = [at |-> "recognize", url |-> TRUE, used |-> worker],
                              !["cleanup"].at = IF @ = "done" THEN "idle" ELSE @]

\* loadImage(file)
LoadImage ==
    /\ \E f \in Images : imageFile' = f
    /\ UNCHANGED <<pc, numVars, validateVars, invoiceVars, sessionVars, isProcessing,
                   processingStatus, processedInvoice, lowConfidenceFields, toast, review,
                   shellVars, hardenedVars>>

\* processImage up to its first await; the button is disabled while
\* isProcessing
ProcessImage ==
    /\ call["processImage"].at = "idle"
    /\ ~isProcessing
    /\ imageFile # NoFile
    /\ isProcessing' = TRUE
    /\ processingStatus' = "Extracting text from image..."
    /\ EnterExtractText("processImage")
    /\ UNCHANGED <<pc, numVars, validateVars, invoiceVars, worker, created, liveWorkers,
                   imageFile, processedInvoice, lowConfidenceFields, toast, review,
                   shellVars, hardenedVars>>

\* another call of extractText on the same parser object
DirectCall ==
    /\ call["direct"].at = "idle"
    /\ EnterExtractText("direct")
    /\ UNCHANGED <<pc, numVars, validateVars, invoiceVars, worker, created, liveWorkers,
                   pageVars, shellVars, hardenedVars>>

\* this.worker = await Tesseract.createWorker(...): the worker is there
WorkerCreated(c) ==
    /\ call[c].at = "createWorker"
    /\ created' = created + 1
    /\ liveWorkers' = liveWorkers \cup {created + 1}
    /\ worker' = created + 1
    /\ call' = [call EXCEPT ![c].at = "initialized"]
    /\ UNCHANGED <<pc, numVars, validateVars, invoiceVars, pageVars, shellVars, hardenedVars>>

\* Tesseract.createWorker rejects: initialize, extractText and processInvoice
\* reject
CreateWorkerFails(c) ==
    /\ call[c].at = "createWorker"
    /\ call' = [call EXCEPT ![c].at = "rejected"]
    /\ UNCHANGED <<pc, numVars, validateVars, invoiceVars, worker, created, liveWorkers,
                   pageVars, shellVars, hardenedVars>>

\* extractText after await this.initialize(): the object URL, and
\* this.worker.recognize, which throws inside the try when cleanup has taken
\* the worker away
BeginRecognize(c) ==
    /\ call[c].at = "initialized"
    /\ call' = [call EXCEPT ![c] =
                   IF worker = NoWorker
                   THEN [at |-> "rejected", url |-> FALSE, used |-> NoWorker]
                   ELSE [at |-> "recognize", url |-> TRUE, used |-> worker]]
    /\ UNCHANGED <<pc, numVars, validateVars, invoiceVars, worker, created, liveWorkers,
                   pageVars, shellVars, hardenedVars>>

\* Without the finally of extractText
RecognizeFailsKeepURL(c) ==
    /\ call[c].at = "recognize"
    /\ call' = [call EXCEPT ![c].at = "rejected"]
    /\ UNCHANGED <<pc, numVars, validateVars, invoiceVars, worker, created, liveWorkers,
                   pageVars, shellVars, hardenedVars>>

\* this.worker.recognize rejects: the finally revokes the URL, extractText and
\* processInvoice reject
RecognizeFails(c) ==
    /\ call[c].at = "recognize"
    /\ call' = [call EXCEPT ![c].at = "rejected", ![c].url = FALSE]
    /\ UNCHANGED <<pc, numVars, validateVars, invoiceVars, worker, created, liveWorkers,
                   pageVars, shellVars, hardenedVars>>

\* this.worker.recognize resolves for the direct caller: extractText returns
\* the text
DirectRecognized ==
    /\ call["direct"].at = "recognize"
    /\ call' = [call EXCEPT !["direct"].at = "resolved", !["direct"].url = FALSE]
    /\ UNCHANGED <<pc, numVars, validateVars, invoiceVars, worker, created, liveWorkers,
                   pageVars, shellVars, hardenedVars>>

\* the direct caller has its answer
DirectReturns ==
    /\ call["direct"].at \in {"resolved", "rejected"}
    /\ call' = [call EXCEPT !["direct"] = IdleCall]
    /\ UNCHANGED <<pc, numVars, validateVars, invoiceVars, worker, created, liveWorkers,
                   pageVars, shellVars, hardenedVars>>

\* What processInvoice extracts from a text, but for the date
Parsed(t) ==
    [lines         |-> SplitLines(t),
     party         |-> extractParty(SplitLines(t)),
     invoiceNumber |-> extractInvoiceNumber(SplitLines(t)),
     items         |-> extractItems(SplitLines(t)),
     totals        |-> extractTotals(SplitLines(t))]

ParsedOf == [t \in SessionTexts |-> Parsed(t)]

\* this.worker.recognize resolves for processInvoice, which runs to its end
Recognized ==
    /\ call["processImage"].at = "recognize"
    /\ call' = [call EXCEPT !["processImage"].at = "resolved", !["processImage"].url = FALSE]
    /\ \E t \in SessionTexts, engine \in DateEngines, zone \in TimeZones,
          today \in Todays, now \in SessionClock :
          \E p \in {ParsedOf[t]} :
             \E dt \in {extractDate(p.lines, engine, zone, today)} :
                /\ text' = t
                /\ lines' = p.lines
                /\ party' = p.party
                /\ invoiceNumber' = p.invoiceNumber
                /\ date' = dt
                /\ items' = p.items
                /\ totals' = p.totals
                /\ record' = Assemble(p.party, p.invoiceNumber, dt, p.items, p.totals, now)
    /\ UNCHANGED <<pc, numVars, validateVars, startIdx, endIdx, idx, itemLine, worker,
                   created, liveWorkers, pageVars, shellVars, hardenedVars>>

\* processImage after await this.parser.processInvoice(...), up to the timer
ResumeProcessImage ==
    /\ call["processImage"].at = "resolved"
    /\ processingStatus' = "Processing invoice data..."
    /\ call' = [call EXCEPT !["processImage"].at = "timer"]
    /\ UNCHANGED <<pc, numVars, validateVars, invoiceVars, worker, created, liveWorkers,
                   imageFile, isProcessing, processedInvoice, lowConfidenceFields, toast,
                   review, shellVars, hardenedVars>>

\* processInvoice is over and its result handed on: its variables are gone
ForgetInvoice ==
    /\ text' = ""
    /\ lines' = <<>>
    /\ party' = ""
    /\ invoiceNumber' = ""
    /\ date' = ""
    /\ items' = <<>>
    /\ totals' = NoTotals
    /\ record' = NoRecord
    /\ UNCHANGED <<startIdx, endIdx, idx, itemLine>>

\* processImage after the timer, to its end
ShowInvoice ==
    /\ call["processImage"].at = "timer"
    /\ processedInvoice' = record
    /\ lowConfidenceFields' = identifyLowConfidenceFields(record)
    /\ toast' = "success"
    /\ isProcessing' = FALSE
    /\ processingStatus' = ""
    /\ call' = [call EXCEPT !["processImage"] = IdleCall]
    /\ ForgetInvoice
    /\ review' = FreshReview(record)
    /\ UNCHANGED <<pc, numVars, validateVars, worker, created, liveWorkers, imageFile,
                   shellVars, hardenedVars>>

\* the catch and the finally of processImage
ShowFailure ==
    /\ call["processImage"].at = "rejected"
    /\ toast' = "error"
    /\ isProcessing' = FALSE
    /\ processingStatus' = ""
    /\ call' = [call EXCEPT !["processImage"] = IdleCall]
    /\ UNCHANGED <<pc, numVars, validateVars, invoiceVars, worker, created, liveWorkers,
                   imageFile, processedInvoice, lowConfidenceFields, review, shellVars,
                   hardenedVars>>

\* clearInvoice()
ClearInvoice ==
    /\ imageFile' = NoFile
    /\ processedInvoice' = NoInvoice
    /\ lowConfidenceFields' = <<>>
    /\ review' = NoReview
    /\ UNCHANGED <<pc, numVars, validateVars, invoiceVars, sessionVars, isProcessing,
                   processingStatus, toast, shellVars, hardenedVars>>

\* cleanup up to its await: the worker is told to terminate.  Without a
\* worker cleanup returns at once.  Its place is "done" from its return until
\* the next call of extractText starts.
CleanupBegin ==
    /\ call["cleanup"].at \in {"idle", "done"}
    /\ IF worker # NoWorker
       THEN /\ liveWorkers' = liveWorkers \ {worker}
            /\ call' = [call EXCEPT !["cleanup"].at = "terminate"]
       ELSE /\ call["cleanup"].at = "idle"
            /\ call' = [call EXCEPT !["cleanup"].at = "done"]
            /\ UNCHANGED liveWorkers
    /\ UNCHANGED <<pc, numVars, validateVars, invoiceVars, worker, created, pageVars,
                   shellVars, hardenedVars>>

\* cleanup after await this.worker.terminate()
CleanupEnd ==
    /\ call["cleanup"].at = "terminate"
    /\ worker' = NoWorker
    /\ call' = [call EXCEPT !["cleanup"].at = "done"]
    /\ UNCHANGED <<pc, numVars, validateVars, invoiceVars, created, liveWorkers, pageVars,
                   shellVars, hardenedVars>>

InitSession ==
    /\ pc = "session"
    /\ NumIdle
    /\ ValidateIdle
    /\ InvoiceIdle
    /\ SessionIdle
    /\ PageIdle
    /\ ShellIdle
    /\ HardenedIdle

NextSession ==
    \/ LoadImage
    \/ ProcessImage
    \/ DirectCall
    \/ \E c \in Callers : WorkerCreated(c)
    \/ \E c \in Callers : CreateWorkerFails(c)
    \/ \E c \in Callers : BeginRecognize(c)
    \/ \E c \in Callers : RecognizeFails(c)
    \/ DirectRecognized
    \/ DirectReturns
    \/ Recognized
    \/ ResumeProcessImage
    \/ ShowInvoice
    \/ ShowFailure
    \/ ClearInvoice
    \/ CleanupBegin
    \/ CleanupEnd

SpecSession == InitSession /\ [][NextSession]_vars

(***************************************************************************)
(* The review form of OCRInvoice.vue: the record on display is edited      *)
(* through the quantity and rate fields of its item rows and through the   *)
(* remove button of a row.  A field bound with v-model.number holds a      *)
(* number, or the empty string when the field is empty; the binding's      *)
(* listener runs before the @input handler of the same event.              *)
(***************************************************************************)
\* the empty string a number field holds when it is empty
EmptyInput == -2

\* ToNumber of a field value, as the operator * applies it
ToNumber(v) == IF v = EmptyInput THEN 0 ELSE v

\* What the user types into a quantity field and into a rate field
QtyInputs == {EmptyInput, 0, 100, 300}
RateInputs == {EmptyInput, 250, 1000}

\* items.reduce((sum, item) => sum + item.amount, 0)
updateGrandTotalKeepTotal(invoice) ==
    [invoice EXCEPT !.grand_total = SumAmounts(invoice.items)]

updateGrandTotal(invoice) ==
    [invoice EXCEPT !.grand_total = SumAmounts(invoice.items),
                    !.total       = SumAmounts(invoice.items)]

\* updateItemAmount(index) on a record whose item's fields hold qty and rate
updateItemAmount(invoice, index) ==
    updateGrandTotal(
        [invoice EXCEPT !.items[index].amount =
            (ToNumber(invoice.items[index].qty) * ToNumber(invoice.items[index].rate))
                \div Scale])

\* items.splice(index, 1)
Splice(s, index) == [k \in 1..(Len(s) - 1) |-> IF k < index THEN s[k] ELSE s[k + 1]]

removeItem(invoice, index) ==
    updateGrandTotal([invoice EXCEPT !.items = Splice(invoice.items, index)])

\* The texts whose records are reviewed: one whose printed totals are the
\* sum of its items and one whose printed grand total is not
MismatchText ==
    "Item Qty Rate Total\nWidget 2 15.00 30.00\nGadget 3 10.00 30.00\nGrand Total: 99.00"

ReviewTexts == {EndToEndText, MismatchText}

ReviewParsed == [t \in ReviewTexts |-> Parsed(t)]

AssembleParsed(p) ==
    Assemble(p.party, p.invoiceNumber, "2023-11-14", p.items, p.totals, "1700000000000")

ReviewInvoices == {AssembleParsed(ReviewParsed[t]) : t \in ReviewTexts}

\* an input event of the quantity field of row index
InputQty ==
    /\ pc = "review"
    /\ processedInvoice # NoInvoice
    /\ \E index \in 1..Len(processedInvoice.items), v \in QtyInputs :
          /\ processedInvoice' =
                updateItemAmount([processedInvoice EXCEPT !.items[index].qty = v], index)
          /\ review' = [operated |-> TRUE, edited |-> [review.edited EXCEPT ![index] = TRUE]]
    /\ UNCHANGED <<pc, numVars, validateVars, invoiceVars, sessionVars, imageFile,
                   isProcessing, processingStatus, lowConfidenceFields, toast, shellVars,
                   hardenedVars>>

\* an input event of the rate field of row index
InputRate ==
    /\ pc = "review"
    /\ processedInvoice # NoInvoice
    /\ \E index \in 1..Len(processedInvoice.items), v \in RateInputs :
          /\ processedInvoice' =
                updateItemAmount([processedInvoice EXCEPT !.items[index].rate = v], index)
          /\ review' = [operated |-> TRUE, edited |-> [review.edited EXCEPT ![index] = TRUE]]
    /\ UNCHANGED <<pc, numVars, validateVars, invoiceVars, sessionVars, imageFile,
                   isProcessing, processingStatus, lowConfidenceFields, toast, shellVars,
                   hardenedVars>>

\* a click on the remove button of row index
RemoveItem ==
    /\ pc = "review"
    /\ processedInvoice # NoInvoice
    /\ \E index \in 1..Len(processedInvoice.items) :
          /\ processedInvoice' = removeItem(processedInvoice, index)
          /\ review' = [operated |-> TRUE, edited |-> Splice(review.edited, index)]
    /\ UNCHANGED <<pc, numVars, validateVars, invoiceVars, sessionVars, imageFile,
                   isProcessing, processingStatus, lowConfidenceFields, toast, shellVars,
                   hardenedVars>>

\* The page after processImage has put a record on display
InitReview ==
    /\ pc = "review"
    /\ NumIdle
    /\ ValidateIdle
    /\ InvoiceIdle
    /\ SessionIdle
    /\ imageFile \in Images
    /\ isProcessing = FALSE
    /\ processingStatus = ""
    /\ processedInvoice \in ReviewInvoices
    /\ lowConfidenceFields = identifyLowConfidenceFields(processedInvoice)
    /\ toast = "success"
    /\ review = FreshReview(processedInvoice)
    /\ ShellIdle
    /\ HardenedIdle

NextReview ==
    \/ InputQty
    \/ InputRate
    \/ RemoveItem

SpecReview == InitReview /\ [][NextReview]_vars

(***************************************************************************)
(* The application shell (App.vue).  A handler runs from one await to the  *)
(* next without interruption; at an await another handler, started by an   *)
(* event of the screen on display, may run.  Up to MaxTasks handlers are in *)
(* flight at once.  Of the data of App the screen, the login state and the  *)
(* connection flag are kept, and of localStorage the stored login.          *)
(***************************************************************************)
Users == {"ann", "bob"}
NotShell == <<pc, numVars, validateVars, invoiceVars, sessionVars, pageVars, hardenedVars>>

\* showDbSelector() up to await fyo.purgeCache()
ShowDbSelectorBegin(k, rest) ==
    /\ storedUser' = NoUser
    /\ task' = [task EXCEPT ![k] = [at |-> "purgeCache", rest |-> rest]]

\* mounted(): setInitialScreen() without a last selected file, or with one
Mounted ==
    /\ pc = "shell"
    /\ activeScreen = NoScreen
    /\ \A k \in 1..MaxTasks : task[k] = FreeTask
    /\ \/ /\ activeScreen' = "DatabaseSelector"
          /\ UNCHANGED task
       \/ /\ task' = [task EXCEPT ![1].at = "connect"]
          /\ UNCHANGED activeScreen
    /\ UNCHANGED <<NotShell, isAuthenticated, currentUser, isDatabaseConnected, storedUser>>

\* fileSelected(filePath) up to its first await
FileSelected ==
    /\ pc = "shell"
    /\ activeScreen = "DatabaseSelector"
    /\ \E k \in 1..MaxTasks :
          /\ task[k] = FreeTask
          /\ task' = [task EXCEPT ![k].at = "connect"]
    /\ UNCHANGED <<NotShell, activeScreen, isAuthenticated, currentUser,
                   isDatabaseConnected, storedUser>>

\* fileSelected without access to the file, or connectToDatabase reporting
\* an error: handleConnectionFailed calls showDbSelector and then returns
\* or throws
ConnectFails ==
    /\ pc = "shell"
    /\ \E k \in 1..MaxTasks :
          /\ task[k].at = "connect"
          /\ \/ /\ activeScreen' = "DatabaseSelector"
                /\ task' = [task EXCEPT ![k] = FreeTask]
                /\ UNCHANGED storedUser
             \/ /\ \E rest \in {"end", "throw"} : ShowDbSelectorBegin(k, rest)
                /\ UNCHANGED activeScreen
    /\ UNCHANGED <<NotShell, isAuthenticated, currentUser, isDatabaseConnected>>

\* connectDatabaseAndShowLoginOrDesk after the connection and the read of
\* setupComplete
Connected ==
    /\ pc = "shell"
    /\ \E k \in 1..MaxTasks :
          /\ task[k].at = "connect"
          /\ \/ /\ activeScreen' = "SetupWizard"
                /\ task' = [task EXCEPT ![k] = FreeTask]
                /\ UNCHANGED isDatabaseConnected
             \/ /\ isDatabaseConnected' = TRUE
                /\ task' = [task EXCEPT ![k].at = "initialize"]
                /\ UNCHANGED activeScreen
    /\ UNCHANGED <<NotShell, isAuthenticated, currentUser, storedUser>>

\* connectDatabaseAndShowLoginOrDesk after initializeInstance and
\* updatePrintTemplates: the stored login decides between Desk and Login
Initialized ==
    /\ pc = "shell"
    /\ \E k \in 1..MaxTasks :
          /\ task[k].at = "initialize"
          /\ IF storedUser # NoUser
             THEN /\ isAuthenticated' = TRUE
                  /\ currentUser' = storedUser
                  /\ task' = [task EXCEPT ![k].at = "setLanguageMap"]
                  /\ UNCHANGED activeScreen
             ELSE /\ activeScreen' = "Login"
                  /\ task' = [task EXCEPT ![k] = FreeTask]
                  /\ UNCHANGED <<isAuthenticated, currentUser>>
    /\ UNCHANGED <<NotShell, isDatabaseConnected, storedUser>>

\* newDatabase()
NewDatabase ==
    /\ pc = "shell"
    /\ activeScreen = "DatabaseSelector"
    /\ activeScreen' = "SetupWizard"
    /\ UNCHANGED <<NotShell, isAuthenticated, currentUser, isDatabaseConnected,
                   storedUser, task>>

\* setupComplete(options) up to its first await
SetupCompleteBegin ==
    /\ pc = "shell"
    /\ activeScreen = "SetupWizard"
    /\ \E k \in 1..MaxTasks :
          /\ task[k] = FreeTask
          /\ task' = [task EXCEPT ![k].at = "setup"]
    /\ UNCHANGED <<NotShell, activeScreen, isAuthenticated, currentUser,
                   isDatabaseConnected, storedUser>>

\* setupComplete after setupInstance
SetupCompleteEnd ==
    /\ pc = "shell"
    /\ \E k \in 1..MaxTasks :
          /\ task[k].at = "setup"
          /\ task' = [task EXCEPT ![k] = FreeTask]
    /\ isDatabaseConnected' = TRUE
    /\ activeScreen' = "Login"
    /\ UNCHANGED <<NotShell, isAuthenticated, currentUser, storedUser>>

\* handleLoginSuccess(userData) up to the first await of setDesk
handleLoginSuccess ==
    /\ pc = "shell"
    /\ activeScreen = "Login"
    /\ \E k \in 1..MaxTasks, userData \in Users :
          /\ task[k] = FreeTask
          /\ isAuthenticated' = TRUE
          /\ currentUser' = userData
          /\ storedUser' = userData
          /\ task' = [task EXCEPT ![k].at = "setLanguageMap"]
    /\ UNCHANGED <<NotShell, activeScreen, isDatabaseConnected>>

\* setDesk after await setLanguageMap(), up to await this.setDeskRoute()
setDesk ==
    /\ pc = "shell"
    /\ \E k \in 1..MaxTasks :
          /\ task[k].at = "setLanguageMap"
          /\ task' = [task EXCEPT ![k].at = "setDeskRoute"]
    /\ activeScreen' = "Desk"
    /\ UNCHANGED <<NotShell, isAuthenticated, currentUser, isDatabaseConnected, storedUser>>

\* the rest of setDesk and of its caller
SetDeskEnd ==
    /\ pc = "shell"
    /\ \E k \in 1..MaxTasks :
          /\ task[k].at = "setDeskRoute"
          /\ task' = [task EXCEPT ![k] = FreeTask]
    /\ UNCHANGED <<NotShell, activeScreen, isAuthenticated, currentUser,
                   isDatabaseConnected, storedUser>>

\* handleLogout() up to await showDialog(...): the button is in the block
\* shown when activeScreen is Desk and isAuthenticated
LogoutBegin ==
    /\ pc = "shell"
    /\ activeScreen = "Desk"
    /\ isAuthenticated
    /\ \E k \in 1..MaxTasks :
          /\ task[k] = FreeTask
          /\ task' = [task EXCEPT ![k].at = "showDialog"]
    /\ UNCHANGED <<NotShell, activeScreen, isAuthenticated, currentUser,
                   isDatabaseConnected, storedUser>>

\* handleLogout after the dialog, whatever its answer
handleLogout ==
    /\ pc = "shell"
    /\ \E k \in 1..MaxTasks :
          /\ task[k].at = "showDialog"
          /\ task' = [task EXCEPT ![k] = FreeTask]
    /\ storedUser' = NoUser
    /\ isAuthenticated' = FALSE
    /\ currentUser' = NoUser
    /\ activeScreen' = "Login"
    /\ UNCHANGED <<NotShell, isDatabaseConnected>>

\* handleSwitchDatabase() up to the await of showDbSelector
handleSwitchDatabase ==
    /\ pc = "shell"
    /\ activeScreen = "Login"
    /\ \E k \in 1..MaxTasks :
          /\ task[k] = FreeTask
          /\ ShowDbSelectorBegin(k, "end")
    /\ isAuthenticated' = FALSE
    /\ currentUser' = NoUser
    /\ UNCHANGED <<NotShell, activeScreen, isDatabaseConnected>>

\* showDbSelector() called by the change-db-file event of Desk or the
\* setup-canceled event of SetupWizard
ShowDbSelectorEvent ==
    /\ pc = "shell"
    /\ \/ activeScreen = "Desk" /\ isAuthenticated
       \/ activeScreen = "SetupWizard"
    /\ \E k \in 1..MaxTasks :
          /\ task[k] = FreeTask
          /\ ShowDbSelectorBegin(k, "end")
    /\ UNCHANGED <<NotShell, activeScreen, isAuthenticated, currentUser,
                   isDatabaseConnected>>

\* showDbSelector after await fyo.purgeCache(); when handleConnectionFailed
\* then throws, fileSelected shows the error and calls showDbSelector again
showDbSelector ==
    /\ pc = "shell"
    /\ \E k \in 1..MaxTasks :
          /\ task[k].at = "purgeCache"
          /\ task' = [task EXCEPT ![k] = IF task[k].rest = "throw"
                                         THEN [at |-> "errorDialog", rest |-> "end"]
                                         ELSE FreeTask]
    /\ activeScreen' = "DatabaseSelector"
    /\ isAuthenticated' = FALSE
    /\ currentUser' = NoUser
    /\ isDatabaseConnected' = FALSE
    /\ UNCHANGED <<NotShell, storedUser>>

\* fileSelected after await handleErrorWithDialog(...)
ErrorShown ==
    /\ pc = "shell"
    /\ \E k \in 1..MaxTasks :
          /\ task[k].at = "errorDialog"
          /\ ShowDbSelectorBegin(k, "end")
    /\ UNCHANGED <<NotShell, activeScreen, isAuthenticated, currentUser,
                   isDatabaseConnected>>

\* The application as created: data() of App and an empty or a kept login
InitShell ==
    /\ pc = "shell"
    /\ NumIdle
    /\ ValidateIdle
    /\ InvoiceIdle
    /\ SessionIdle
    /\ PageIdle
    /\ activeScreen = NoScreen
    /\ isAuthenticated = FALSE
    /\ currentUser = NoUser
    /\ isDatabaseConnected = FALSE
    /\ storedUser \in Users \cup {NoUser}
    /\ task = [k \in 1..MaxTasks |-> FreeTask]
    /\ HardenedIdle

NextShell ==
    \/ Mounted
    \/ FileSelected
    \/ ConnectFails
    \/ Connected
    \/ Initialized
    \/ NewDatabase
    \/ SetupCompleteBegin
    \/ SetupCompleteEnd
    \/ handleLoginSuccess
    \/ setDesk
    \/ SetDeskEnd
    \/ LogoutBegin
    \/ handleLogout
    \/ handleSwitchDatabase
    \/ ShowDbSelectorEvent
    \/ showDbSelector
    \/ ErrorShown

SpecShell == InitShell /\ [][NextShell]_vars

(***************************************************************************)
(* The hardened InvoiceOCRParser: extractNumbers, extractDescription,      *)
(* isHeaderLike and extractItems.  Numbers are in hundredths.  One turn of *)
(* the loop of extractItems is one step; outcome records how the turn for  *)
(* each line ended:                                                        *)
(*   "totals"  the break at a totals word                                  *)
(*   "header"  the continue at a header-like line                          *)
(*   "few"     the continue at fewer than two numbers                      *)
(*   "years"   the continue at numbers that are all year-like              *)
(*   "minimum" the continue at a largest number below the minimum          *)
(*   "noQty"   the continue at !qty || !rate                               *)
(*   "gate"    the continue of the table lock                              *)
(*   "noName"  the continue at a missing or one-character description      *)
(*   "item"    items.push                                                  *)
(***************************************************************************)
YearMin == 1900
YearMax == 2100
MinAmount == 20
QtyMax == 100
GateTolerance == 25
HeaderMaxLength == 30

\* The end of a match of /[$]?\s*\d+(?:,\d{3})*(?:\.\d{1,2})?/ that starts
\* after i characters of s, or -1.  Every part after \d+ is optional and
\* greedy, so the first try of the matcher is the match.
HardenedFracEnd(s, g) ==
    IF Ch(s, g + 1) = "." /\ DigitsAt(s, g + 1, 1)
    THEN IF DigitsAt(s, g + 1, 2) THEN g + 3 ELSE g + 2
    ELSE g

HardenedDigitsEnd(s, w) ==
    IF Run(s, w, Digits) = 0 THEN -1
    ELSE HardenedFracEnd(s, w + Run(s, w, Digits)
                               + 4 * GroupCount(s, w + Run(s, w, Digits), {","}))

HardenedSpaceEnd(s, c) == HardenedDigitsEnd(s, c + Run(s, c, Whitespace))

NumberEnd(s, i) ==
    HardenedSpaceEnd(s, IF Ch(s, i + 1) \in CurrencySymbols THEN i + 1 ELSE i)

\* line.matchAll(pattern): the matches from position pos on, left to right
RECURSIVE NumberMatches(_, _), NumberMatchAt(_, _)
NumberMatchAt(s, i) ==
    <<[from |-> i, to |-> NumberEnd(s, i)]>> \o NumberMatches(s, NumberEnd(s, i))
NumberMatches(s, pos) ==
    IF \A i \in pos..(Len(s) - 1) : NumberEnd(s, i) = -1 THEN <<>>
    ELSE NumberMatchAt(s, MinOf({i \in pos..(Len(s) - 1) : NumberEnd(s, i) # -1}))

\* parseFloat(m[1].replace(/[,$\s]/g, ''))
NumberValue(s, m) ==
    parseFloat(RemoveAll(SubSeq(s, m.from + 1, m.to),
                         {","} \cup CurrencySymbols \cup Whitespace))

\* extractNumbers(line): the values of the matches
NumbersOf(line, ms) == [k \in 1..Len(ms) |-> NumberValue(line, ms[k])]
extractNumbers(line) == NumbersOf(line, NumberMatches(line, 0))

\* extractDescription(line): the matches removed, runs of white space made
\* one space, trimmed.  No digit is left then, so the last replace of a
\* leading row number changes nothing.
WithoutMatches(line, ms) ==
    Concat([i \in 1..Len(line) |->
               IF \E k \in 1..Len(ms) : ms[k].from < i /\ i <= ms[k].to
               THEN "" ELSE Ch(line, i)])
extractDescription(line) ==
    Trim(CollapseSpaces(WithoutMatches(line, NumberMatches(line, 0))))

\* isHeaderLike(line)
isHeaderLike(line) ==
    /\ line = ToUpperCase(line)
    /\ Len(line) < HeaderMaxLength
    /\ \A i \in 1..Len(line) : Ch(line, i) \notin Digits

\* /(subtotal|grand\s*total|amount\s*due|tax|vat)/i.test(line)
SpacedAt(low, p, a, b) ==
    LitAt(low, p, a) /\ LitAt(low, p + Len(a) + Run(low, p + Len(a), Whitespace), b)
HasTotalsWord(low) ==
    \/ Contains(low, "subtotal")
    \/ Contains(low, "tax")
    \/ Contains(low, "vat")
    \/ \E p \in 0..Len(low) : SpacedAt(low, p, "grand", "total")
    \/ \E p \in 0..Len(low) : SpacedAt(low, p, "amount", "due")

isYearLike(n) == n >= YearMin * Scale /\ n <= YearMax * Scale

\* values.sort((a, b) => a - b)
SortAsc(v) ==
    [k \in 1..Len(v) |->
        CHOOSE x \in {v[j] : j \in 1..Len(v)} :
            /\ Cardinality({j \in 1..Len(v) : v[j] < x}) < k
            /\ k <= Cardinality({j \in 1..Len(v) : v[j] <= x})]

\* values.find(v => v > 0 && v <= 100 && !isYearLike(v)), Null for undefined
PlausibleIn(values) ==
    {values[j] : j \in {j \in 1..Len(values) :
        values[j] > 0 /\ values[j] <= QtyMax * Scale /\ ~isYearLike(values[j])}}
possibleQty(values) ==
    IF PlausibleIn(values) = {} THEN Null ELSE MinOf(PlausibleIn(values))

\* qty and rate as lines 480-491 leave them
QtyOf(values) ==
    IF Len(values) = 2 /\ possibleQty(values) = Null THEN Scale ELSE possibleQty(values)
RateOf(values) ==
    IF Len(values) = 2
    THEN IF possibleQty(values) # Null
         THEN (values[Len(values)] * Scale) \div possibleQty(values)
         ELSE values[1]
    ELSE values[Len(values) - 1]

\* Math.abs(qty * rate - total) / total, in percent and rounded down
Tolerance(qty, rate, total) ==
    ((Abs(qty * rate - total * Scale) \div total) * 100) \div Scale

Turn(how, desc, started, pushed) ==
    [outcome |-> how, currentDesc |-> desc, tableStarted |-> started, pushed |-> pushed]

\* lines 507-518
TurnNamed(finalDesc, qty, rate, total, desc) ==
    IF Len(finalDesc) < 2 THEN Turn("noName", desc, TRUE, <<>>)
    ELSE Turn("item", "", TRUE,
              <<[itemName |-> finalDesc, itemCode |-> generateItemCode(finalDesc),
                 qty |-> qty, rate |-> rate, amount |-> total]>>)

\* lines 493-505
TurnInferred(qty, rate, total, description, desc, started) ==
    IF qty \in {Null, 0} \/ rate \in {Null, 0} THEN Turn("noQty", desc, started, <<>>)
    ELSE IF /\ ~started
            /\ ~(/\ Tolerance(qty, rate, total) < GateTolerance
                 /\ (description # "" \/ desc # ""))
    THEN Turn("gate", desc, started, <<>>)
    ELSE TurnNamed(IF description # "" THEN description ELSE desc, qty, rate, total, desc)

\* lines 466-491
TurnValues(values, description, desc, started) ==
    IF Len(values) < 2 THEN Turn("few", desc, started, <<>>)
    ELSE IF \A j \in 1..Len(values) : isYearLike(values[j])
    THEN Turn("years", desc, started, <<>>)
    ELSE IF values[Len(values)] < MinAmount * Scale
    THEN Turn("minimum", desc, started, <<>>)
    ELSE TurnInferred(QtyOf(values), RateOf(values), values[Len(values)], description,
                      desc, started)

\* lines 456-464
TurnNumbers(numbers, description, desc, started) ==
    TurnValues(SortAsc(numbers), description,
               IF ~started /\ Len(numbers) = 0 /\ Len(description) > 2
               THEN description ELSE desc,
               started)

\* one turn of the loop of extractItems for line
TurnOf(line, desc, started) ==
    IF HasTotalsWord(ToLowerCase(line)) THEN Turn("totals", desc, started, <<>>)
    ELSE IF isHeaderLike(line) THEN Turn("header", desc, started, <<>>)
    ELSE TurnNumbers(extractNumbers(line), extractDescription(line), desc, started)

\* Lines as parseInvoice hands them on: trimmed and not empty
HardenedLines ==
    {"Widget 2 15.00 30.00", "x 2 15.00 30.00", "Gadget 5 10.00 90.00",
     "Gizmo 150 200 300", "Pen 2 5.00 10.00", "Extended warranty", "2 15.00 30.00",
     "Dated 2019 2020", "Cable 3 12.00", "Desk 150 150", "ITEMS", "Subtotal 80.00"}

TurnTable ==
    [line \in HardenedLines |->
        [desc \in {""} \cup {extractDescription(l) : l \in HardenedLines} |->
            [started \in BOOLEAN |-> TurnOf(line, desc, started)]]]

\* one turn of the loop of extractItems
HardenedTurn ==
    /\ pc = "hardened"
    /\ idx < Len(lines)
    /\ \E r \in {TurnTable[lines[idx + 1]][currentDesc][tableStarted]} :
          /\ outcome' = Append(outcome, r.outcome)
          /\ currentDesc' = r.currentDesc
          /\ tableStarted' = r.tableStarted
          /\ items' = items \o r.pushed
          /\ itemLine' = IF r.pushed = <<>> THEN itemLine ELSE Append(itemLine, idx + 1)
          /\ pc' = IF r.outcome = "totals" THEN "hardenedDone" ELSE pc
    /\ idx' = idx + 1
    /\ UNCHANGED <<numVars, validateVars, text, lines, party, invoiceNumber, date, startIdx,
                   endIdx, totals, record, sessionVars, pageVars, shellVars>>

\* the loop ends at the last line
HardenedReturn ==
    /\ pc = "hardened"
    /\ idx = Len(lines)
    /\ pc' = "hardenedDone"
    /\ UNCHANGED <<numVars, validateVars, invoiceVars, sessionVars, pageVars, shellVars,
                   hardenedVars>>

InitHardened ==
    /\ pc = "hardened"
    /\ NumIdle
    /\ ValidateIdle
    /\ text = ""
    /\ lines \in UNION {[1..n -> HardenedLines] : n \in 0..MaxLines}
    /\ party = ""
    /\ invoiceNumber = ""
    /\ date = ""
    /\ startIdx = -1
    /\ endIdx = 0
    /\ idx = 0
    /\ items = <<>>
    /\ itemLine = <<>>
    /\ totals = NoTotals
    /\ record = NoRecord
    /\ SessionIdle
    /\ PageIdle
    /\ ShellIdle
    /\ HardenedIdle

NextHardened ==
    \/ HardenedTurn
    \/ HardenedReturn

SpecHardened == InitHardened /\ [][NextHardened]_vars

(***************************************************************************)
(* InvoiceOCRParser: the column-based parser's test for an item row and    *)
(* its assembly of the record.                                             *)
(***************************************************************************)
\* extractNumbers(line).length: the matches of
\* /([currency]?\s*\d+(?:,\d{3})*(?:\.\d{2})?)/g in s from position p on.  A match
\* ends where the digits, the groups of three and the fraction end.
RECURSIVE CountNumbers(_, _)
CountNumbers(s, p) ==
    LET ds == {j \in (p + 1)..Len(s) : Ch(s, j) \in Digits}
        d  == MinOf(ds) - 1 + Run(s, MinOf(ds) - 1, Digits)
        g  == d + 4 * GroupCount(s, d, {","})
    IN  IF ds = {} THEN 0
        ELSE 1 + CountNumbers(s, Frac2Ends(s, g, {"."})[1])

ItemRowMin == 2
ItemRowMax == 4

isItemRow(line) ==
    CountNumbers(line, 0) >= ItemRowMin /\ CountNumbers(line, 0) <= ItemRowMax

\* normalizeToFrappe(data), data the parsed invoice
normalizeToFrappe(data) ==
    LET total == OrElse(data.totals.subtotal, SumAmounts(data.items))
    IN  [party          |-> data.party,
         posting_date   |-> data.date,
         due_date       |-> data.date,
         invoice_number |-> data.invoiceNumber,
         items          |-> [k \in 1..Len(data.items) |->
                                [item_code |-> data.items[k].itemCode,
                                 item_name |-> data.items[k].itemName,
                                 qty |-> data.items[k].qty, rate |-> data.items[k].rate,
                                 amount |-> data.items[k].amount, uom |-> "Nos"]],
         total          |-> total,
         grand_total    |-> OrElse(data.totals.grandTotal, total)]

(***************************************************************************)
(* Properties of the pipeline.  Amounts are in hundredths.                 *)
(***************************************************************************)
Extracted == pc \in {"itemLoop", "assemble", "done"}

ItemIs(it, name, qty, rate, amount) ==
    it.itemName = name /\ it.qty = qty /\ it.rate = rate /\ it.amount = amount

\* C1: for the six lines of the end-to-end scenario the pipeline yields party
\* "Acme Corp", exactly the two items {Widget, 2, 15, 30} and {Service Fee, 1,
\* 50, 50} in this order, totals subtotal 80, tax 0, grandTotal 80, and the
\* assembled total 80 and grand_total 80.
C1_EndToEnd ==
    (pc = "done" /\ text = EndToEndText) =>
        /\ lines = <<"Bill To: Acme Corp", "Item Qty Rate Total", "Widget 2 15.00 30.00",
                     "Service Fee 50.00 50.00", "Subtotal: 80.00", "Grand Total: 80.00">>
        /\ party = "Acme Corp"
        /\ Len(items) = 2
        /\ ItemIs(items[1], "Widget", 2 * Scale, 15 * Scale, 30 * Scale)
        /\ ItemIs(items[2], "Service Fee", 1 * Scale, 50 * Scale, 50 * Scale)
        /\ totals = [subtotal |-> 80 * Scale, tax |-> 0, grandTotal |-> 80 * Scale]
        /\ record.party = "Acme Corp"
        /\ Len(record.items) = 2
        /\ record.total = 80 * Scale
        /\ record.grand_total = 80 * Scale

C1_Witness == pc = "done" /\ text = EndToEndText /\ Len(record.items) = 2

\* C4 (as stated): the table line "HP Computer 5,00 each 37,75 188,75" yields
\* one item with quantity 5, rate 37.75 and amount 188.75, and the item passes
\* the tolerance check.
C4_AsStated ==
    (pc = "done" /\ text = LocaleText) =>
        /\ Len(items) = 1
        /\ items[1].qty = 5 * Scale
        /\ items[1].rate = 3775
        /\ items[1].amount = 18875
        /\ ~MathCheckFails([name |-> items[1].itemName, qty |-> items[1].qty,
                            rate |-> items[1].rate, total |-> items[1].amount])

\* The first turn of the item loop that gets a line to scan: the lines from
\* this index up to the table end are the ones extractItems looks at.
ScanStart == Max(startIdx + 1, 0)

ScannedItemLines == {j \in ScanStart..(endIdx - 1) : ItemOfLine(lines[j + 1]).found}

\* C5: findTableStart returns the smallest index among the first 30 lines
\* whose line holds alias keywords of at least two column roles, and -1 when
\* there is none; item scanning starts at the line after the header, or at
\* line 0 when the start is -1; a line "Description Qty Rate Total" among the
\* first 30 lines is such a header.
C5_TableStart ==
    Extracted =>
        LET H == {i \in 0..(Min(Len(lines), 30) - 1) :
                     RoleMatches(ToLowerCase(lines[i + 1])) >= 2}
        IN  /\ startIdx = IF H = {} THEN -1 ELSE MinOf(H)
            /\ \A i \in 0..(Min(Len(lines), 30) - 1) :
                  lines[i + 1] = "Description Qty Rate Total" => i \in H
            /\ idx >= startIdx + 1 /\ idx >= 0
            /\ \A k \in 1..Len(itemLine) : itemLine[k] >= startIdx + 1
            /\ (pc = "done" /\ ScanStart < endIdx /\ ItemOfLine(lines[ScanStart + 1]).found)
                  => (itemLine # <<>> /\ itemLine[1] = ScanStart)

C5_Witness ==
    /\ pc = "done"
    /\ startIdx >= 1
    /\ lines[startIdx + 1] = "Description Qty Rate Total"
    /\ itemLine # <<>>
    /\ itemLine[1] = startIdx + 1

\* C6: findTableEnd returns the index of the first line, at or after the line
\* where scanning starts, that holds a footer keyword, and the number of lines
\* when there is none; no item comes from the footer line or a line after it.
C6_TableEnd ==
    Extracted =>
        LET F == {i \in ScanStart..(Len(lines) - 1) :
                     \E k \in 1..Len(FooterKeywords) :
                        Contains(ToLowerCase(lines[i + 1]), FooterKeywords[k])}
        IN  /\ endIdx = IF F = {} THEN Len(lines) ELSE MinOf(F)
            /\ Len(itemLine) = Len(items)
            /\ \A k \in 1..Len(itemLine) : itemLine[k] < endIdx
            /\ pc = "done" => {itemLine[k] : k \in 1..Len(itemLine)} = ScannedItemLines

C6_Witness ==
    /\ pc = "done"
    /\ endIdx < Len(lines)
    /\ items # <<>>
    /\ \E j \in (endIdx + 1)..(Len(lines) - 1) : ItemOfLine(lines[j + 1]).found

\* The lines extractTotals looks at, and among them the indices of those that
\* match a field's keyword.
TotalsLines == LastLines(lines, 20)

Matching(IsField(_)) == {i \in 1..Len(TotalsLines) : IsField(TotalsLines[i])}

HasToken(line) == TotalsTokens(line, 0) # <<>>

LastToken(line) == parseNumber(TotalsTokens(line, 0)[Len(TotalsTokens(line, 0))])

\* C7 (as stated): of the last 20 lines, each of subtotal, tax and grandTotal
\* equals the last numeric token of the last line that matches the field's
\* keyword (nothing, so 0, when that line holds no number), and is 0 when no
\* line matches.
FieldAsStated(value, IsField(_)) ==
    IF Matching(IsField) = {} THEN value = 0
    ELSE IF HasToken(TotalsLines[MaxOf(Matching(IsField))])
    THEN value = LastToken(TotalsLines[MaxOf(Matching(IsField))])
    ELSE value = 0

C7_AsStated ==
    pc \in {"assemble", "done"} =>
        /\ FieldAsStated(totals.subtotal, IsSubtotalLine)
        /\ FieldAsStated(totals.tax, IsTaxLine)
        /\ FieldAsStated(totals.grandTotal, IsGrandTotalLine)

\* C7: of the last 20 lines, each of subtotal, tax and grandTotal equals the
\* last numeric token of the last line that matches the field's keyword and
\* holds a numeric token, and is 0 when there is no such line: a matching line
\* without a numeric token is skipped and overwrites nothing.
FieldOf(value, IsField(_)) ==
    LET M == {i \in Matching(IsField) : HasToken(TotalsLines[i])}
    IN  value = IF M = {} THEN 0 ELSE LastToken(TotalsLines[MaxOf(M)])

C7_LastLineWithToken ==
    pc \in {"assemble", "done"} =>
        /\ FieldOf(totals.subtotal, IsSubtotalLine)
        /\ FieldOf(totals.tax, IsTaxLine)
        /\ FieldOf(totals.grandTotal, IsGrandTotalLine)

C7_Witness ==
    /\ pc = "done"
    /\ Len(lines) >= 2
    /\ IsGrandTotalLine(lines[Len(lines)])
    /\ ~HasToken(lines[Len(lines)])
    /\ totals.grandTotal = 9550

\* C8: in the assembled record total is the extracted subtotal when it is
\* above 0 and the sum of the items' amounts otherwise, and grand_total is the
\* extracted grandTotal when it is above 0 and total otherwise; the
\* column-based parser's normalizeToFrappe assembles the same two values.
C8_Totals ==
    pc = "done" =>
        LET sum   == SumAmounts(items)
            total == IF totals.subtotal > 0 THEN totals.subtotal ELSE sum
            grand == IF totals.grandTotal > 0 THEN totals.grandTotal ELSE total
            data  == [party |-> party, invoiceNumber |-> invoiceNumber, date |-> date,
                      items |-> items, totals |-> totals]
        IN  /\ record.total = total
            /\ record.grand_total = grand
            /\ normalizeToFrappe(data).total = total
            /\ normalizeToFrappe(data).grand_total = grand

C8_Witness ==
    /\ pc = "done"
    /\ totals.subtotal > 0
    /\ items # <<>>
    /\ SumAmounts(items) # totals.subtotal
    /\ record.total = totals.subtotal

\* C9: for every recognized text each stage of processInvoice can take its
\* step (the item loop reads only lines that exist and its index is bounded
\* by the table end, so the loop ends) and the record returned has a party, an
\* invoice number and the items extracted; for the empty text the line
\* sequence is empty, party and invoice number are not found, the item list is
\* empty and total and grand_total are 0.
C9_AlwaysARecord ==
    /\ pc \in {"idle", "party", "invoiceNumber", "date", "items", "itemLoop", "assemble",
                 "done"}
    /\ pc = "itemLoop" =>
          /\ idx >= 0 /\ endIdx <= Len(lines)
          /\ idx < endIdx => idx + 1 \in DOMAIN lines
          /\ idx <= Max(endIdx, ScanStart)
    /\ pc = "done" => record.party # "" /\ record.invoice_number # ""
                        /\ Len(record.items) = Len(items)
    /\ (Extracted /\ text = "") =>
          /\ lines = <<>>
          /\ party = ""
          /\ invoiceNumber = ""
          /\ items = <<>>
    /\ (pc = "done" /\ text = "") =>
          /\ totals = NoTotals
          /\ record.items = <<>>
          /\ record.total = 0
          /\ record.grand_total = 0

C9_Witness == pc = "done" /\ text = "" /\ record.party = "Unknown Customer"

\* C10 (as stated): when no line is a header row and no line looks like an
\* item row, the item list is empty and total and grand_total are 0 unless a
\* totals line supplies a value; a line holding the invoice number never
\* becomes an item.
C10_AsStated ==
    pc = "done" =>
        /\ (startIdx = -1 /\ \A i \in 1..Len(lines) : ~isItemRow(lines[i])) =>
              /\ items = <<>>
              /\ totals = NoTotals => record.total = 0 /\ record.grand_total = 0
        /\ \A k \in 1..Len(itemLine) :
              extractInvoiceNumber(<<lines[itemLine[k] + 1]>>) = ""

\* What the column-based parser's parseInvoice hands to normalizeToFrappe when
\* its extractors find what the pipeline's extractors found.
ParsedData ==
    [party |-> party, invoiceNumber |-> invoiceNumber, date |-> date, items |-> items,
     totals |-> totals]

\* C13 (as stated): extractParty and extractInvoiceNumber return the empty
\* string when they find nothing (they never return a placeholder), and in the
\* record assembled by DynamicPatternParser.processInvoice and in the one
\* assembled by InvoiceOCRParser.normalizeToFrappe party and invoice number
\* are never empty: an empty party is replaced by "Unknown Customer", an empty
\* invoice number by an identifier generated from the clock.
C13_AsStated ==
    pc = "done" =>
        /\ party # "Unknown Customer"
        /\ record.party = IF party = "" THEN "Unknown Customer" ELSE party
        /\ record.invoice_number # ""
        /\ invoiceNumber # "" => record.invoice_number = invoiceNumber
        /\ normalizeToFrappe(ParsedData).party
              = IF party = "" THEN "Unknown Customer" ELSE party
        /\ normalizeToFrappe(ParsedData).invoice_number # ""

\* A numeric token as extractTotals cuts it from a line, with at least one
\* comma and no dot.
CommaToken(t) ==
    /\ t # "" /\ Ch(t, 1) \in Digits
    /\ TotalsTokenEnd(t, 0) = Len(t)
    /\ Includes(t, ",") /\ ~Includes(t, ".")

\* The value of a token read with its last comma as the decimal separator, and
\* with every comma as a thousands separator.
AsDecimalComma(t) ==
    LET c == RemoveAll(t, Whitespace)
    IN  parseFloat(RemoveAll(SubSeq(c, 1, LastIndexOf(c, ",") - 1), {","}) \o "."
                     \o SubSeq(c, LastIndexOf(c, ",") + 1, Len(c)))

AsThousandsCommas(t) == parseFloat(RemoveAll(t, Whitespace \cup {","}))

\* C14 (as stated): for every numeric token with one or more commas and no dot
\* parseNumber reads the comma as the decimal separator exactly when it is
\* followed by exactly two digits, and strips every comma otherwise.
C14_AsStated ==
    (pc = "parsed" /\ CommaToken(tok)) =>
        LET c == RemoveAll(tok, Whitespace)
        IN  num = IF Len(c) - LastIndexOf(c, ",") = 2
                  THEN AsDecimalComma(tok) ELSE AsThousandsCommas(tok)

PartyFound == pc \in {"invoiceNumber", "date", "items", "itemLoop", "assemble", "done"}

PartyKeywords == {"bill", "customer", "client", "sold", "company", "name"}

\* C15 (as stated): extractParty looks only at the first 20 lines; what it
\* returns holds only word characters, whitespace, "&", "." and "-", is
\* trimmed, and is either the empty string or at least 4 characters long (a
\* candidate shorter than that after cleaning is rejected).
C15_AsStated ==
    PartyFound =>
        /\ party # "" =>
              \E i \in 1..Min(Len(lines), 20) :
                 \E kw \in PartyKeywords : Contains(ToLowerCase(lines[i]), kw)
        /\ \A i \in 1..Len(party) :
              Ch(party, i) \in WordChars \cup Whitespace \cup {"&", ".", "-"}
        /\ party = Trim(party)
        /\ party = "" \/ Len(party) >= 4

DateFound == pc \in {"items", "itemLoop", "assemble", "done"}

\* The lines among the first 25 that contain a date-shaped substring
DateLines == {i \in 1..Min(Len(lines), DateWindow) : DateMatch(lines[i]).ok}

\* The results toISOString can give for a match that parses on some engine
ISOForms(m) ==
    {ISODate(NewDate(m, engine), zone) :
        engine \in {e \in DateEngines : NewDate(m, e).valid}, zone \in TimeZones}

\* C16 (as stated): extractDate looks at the first line among the first 25
\* that contains a date-shaped substring: it returns an ISO YYYY-MM-DD form of
\* the substring when the substring parses as a calendar date and the
\* substring itself when it does not; it returns the current date only when
\* no line contains a date-shaped substring.
C16_AsStated ==
    DateFound =>
        IF DateLines = {} THEN date \in Todays
        ELSE LET m == DateMatch(lines[MinOf(DateLines)])
             IN  IF ISOForms(m) # {} THEN date \in ISOForms(m) \cup {m.text}
                 ELSE date = m.text

InList(x, list) == \E i \in 1..Len(list) : list[i] = x

\* C17 (as stated): when processImage succeeds, the lowConfidenceFields it
\* sets contain "Customer" whenever no party was found in the recognized text
\* and "Items" whenever no item was extracted.
C17_AsStated ==
    [][(call["processImage"].at = "timer" /\ call'["processImage"].at = "idle") =>
          /\ (party = "" => InList("Customer", lowConfidenceFields'))
          /\ (items = <<>> => InList("Items", lowConfidenceFields'))]_vars

\* C18 (as stated): whatever the interleaving of the calls on one parser
\* object, at most one worker has been created and not terminated, and the
\* calls waiting for a recognition all use that worker.
C18_AsStated ==
    /\ Cardinality(liveWorkers) <= 1
    /\ \A c, d \in Callers :
          (call[c].at = "recognize" /\ call[d].at = "recognize")
             => call[c].used = call[d].used

\* What a step does when a recognition fails, when processImage handles the
\* failure, and when a call starts while the worker handle is set
FailureSteps ==
    /\ \A c \in Callers :
          (call[c].at \in {"initialized", "recognize"} /\ call'[c].at = "rejected")
             => /\ worker' = worker
                /\ liveWorkers' = liveWorkers
    /\ (call["processImage"].at = "rejected" /\ call'["processImage"].at = "idle")
          => /\ processedInvoice' = processedInvoice
             /\ lowConfidenceFields' = lowConfidenceFields
             /\ isProcessing' = FALSE
             /\ toast' = "error"
    /\ \A c \in Callers :
          (call[c].at = "idle" /\ call'[c].at # "idle" /\ worker # NoWorker)
             => /\ call'[c].at = "recognize"
                /\ call'[c].used = worker
                /\ created' = created

\* C19: a failed recognition is propagated and leaves the session usable.
\* (1) A call that has rejected holds no object URL, and processInvoice has
\* returned no record.  (2) The step in which the recognition fails leaves the
\* worker handle and the workers as they were.  (3) The step in which
\* processImage handles the failure leaves processedInvoice and
\* lowConfidenceFields as they were and sets isProcessing to false.  (4) A call
\* that starts while the handle is set creates no worker and uses that one.
C19_FailurePropagated ==
    /\ [](\A c \in Callers : call[c].at = "rejected" =>
             /\ ~call[c].url
             /\ (c = "processImage" => record = NoRecord))
    /\ [][FailureSteps]_vars

\* A failure has been handled while an earlier record is on display and the
\* worker handle is set.
C19_Witness ==
    /\ toast = "error"
    /\ ~isProcessing
    /\ call["processImage"].at = "idle"
    /\ processedInvoice # NoInvoice
    /\ worker # NoWorker

\* C20 (as stated): the code generateItemCode gives an item is made of
\* upper-case letters only, and it is "ITEM" whenever the name holds no letter
\* (a name made only of digits or punctuation).
C20_AsStated ==
    (pc = "validated" /\ verdict.ok) =>
        LET code == items[Len(items)].itemCode
        IN  /\ code = generateItemCode(cand.name)
            /\ \A i \in 1..Len(code) : Ch(code, i) \in UpperSet
            /\ (\A i \in 1..Len(cand.name) : Ch(cand.name, i) \notin LowerSet \cup UpperSet)
                  => code = "ITEM"

\* What extractItems makes of a line before it tries the patterns
CleanOf(line) == Trim(CollapseSpaces(line))

\* The line is neither too short nor a lone header word
Tried(line) == Len(line) >= MinLineLength /\ ToLowerCase(CleanOf(line)) \notin HeaderWords

\* Pattern k of the bank matches the line
MatchesLine(k, line) == MatchFrom(generatedPatterns[k].regex, 1, CleanOf(line), 0).ok

\* What pattern k of the bank extracts from a line it matches
ExtractedBy(k, line) ==
    Extract(generatedPatterns[k], CleanOf(line),
            MatchFrom(generatedPatterns[k].regex, 1, CleanOf(line), 0))

\* The patterns that match the line and whose extract passes validateItem
Winners(line) ==
    {k \in 1..Len(generatedPatterns) :
        MatchesLine(k, line) /\ validateItem(ExtractedBy(k, line)).ok}

\* For every line of the texts, the first pattern of the bank that matches it
\* with an extract that passes validateItem; 0 when the line is not tried or
\* has no such pattern
LinesOf(ls) == {ls[k] : k \in 1..Len(ls)}
FirstWinner ==
    [line \in UNION {LinesOf(SplitLines(t)) : t \in Texts} |->
        IF Tried(line) /\ Winners(line) # {} THEN MinOf(Winners(line)) ELSE 0]

\* C21 (as stated): in the hardened extractItems the table is open only once
\* an item has been appended, and the first item appended comes from a line
\* whose |quantity x rate - amount| / amount is below 0.25.
C21_AsStated ==
    pc \in {"hardened", "hardenedDone"} =>
        /\ (tableStarted => items # <<>>)
        /\ (items # <<>> =>
               Tolerance(items[1].qty, items[1].rate, items[1].amount) < GateTolerance)

\* C22: each item comes from the first pattern of the bank, in bank order,
\* that matches its line and whose extract passes validateItem (earlier
\* patterns that match but fail validation notwithstanding); a scanned line
\* with such a pattern yields an item; a line yields at most one item and the
\* items are in the order of their lines.
C22_FirstValidPattern ==
    Extracted =>
        /\ Len(generatedPatterns) = 7
        /\ Len(itemLine) = Len(items)
        /\ \A k \in 1..Len(items) :
              LET line == lines[itemLine[k] + 1]
              IN  /\ FirstWinner[line] # 0
                  /\ items[k] = ItemOf(ExtractedBy(FirstWinner[line], line))
        /\ \A k \in 1..(Len(itemLine) - 1) : itemLine[k] < itemLine[k + 1]
        /\ \A j \in ScanStart..(Min(idx, endIdx) - 1) :
              FirstWinner[lines[j + 1]] # 0
                 => \E k \in 1..Len(itemLine) : itemLine[k] = j

\* An item whose line an earlier pattern of the bank matched without passing
\* validation, after an item of an earlier line
C22_Witness ==
    /\ pc = "done"
    /\ Len(items) >= 2
    /\ \E p \in 1..Len(generatedPatterns) :
          /\ p < MinOf(Winners(lines[itemLine[2] + 1]))
          /\ MatchesLine(p, lines[itemLine[2] + 1])

\* The words that are no description: /(^id$|^item$|^description$|^qty$)/i
HeaderWordList == {"id", "item", "description", "qty"}

\* C23 (as stated): in the hardened extractItems a line inside the table with
\* fewer than two numbers and a description longer than 2 characters that is
\* no header word is kept as the pending description, also after the first
\* item has been accepted.
C23_AsStated ==
    (/\ pc \in {"hardened", "hardenedDone"}
     /\ idx >= 1
     /\ tableStarted
     /\ outcome[idx] = "few"
     /\ Len(extractDescription(lines[idx])) > 2
     /\ ToLowerCase(extractDescription(lines[idx])) \notin HeaderWordList)
        => currentDesc = extractDescription(lines[idx])

\* C24 (as stated): in the hardened extractItems a line with three or more
\* numbers none of which is a plausible quantity still yields a candidate,
\* with the second-largest number as its quantity: its turn does not end at
\* the test of qty and rate.
C24_AsStated ==
    \A k \in 1..Len(outcome) :
        (/\ pc \in {"hardened", "hardenedDone"}
         /\ Len(extractNumbers(lines[k])) >= 3
         /\ possibleQty(SortAsc(extractNumbers(lines[k]))) = Null)
            => outcome[k] # "noQty"

\* C25 (as stated): in the hardened extractItems the rejection of a largest
\* number below 20 applies only to lines with exactly two numbers.
C25_AsStated ==
    \A k \in 1..Len(outcome) :
        (pc \in {"hardened", "hardenedDone"} /\ outcome[k] = "minimum")
            => Len(extractNumbers(lines[k])) = 2

\* C26: every item extracted has a name of at least 2 characters, a quantity,
\* a rate and an amount that are numbers above 0 and within the limits of
\* validateItem, and comes from a line with index in [start, end), where
\* 0 <= start <= end <= number of lines.
C26_ItemsWellFormed ==
    Extracted =>
        /\ 0 <= ScanStart /\ ScanStart <= endIdx /\ endIdx <= Len(lines)
        /\ \A k \in 1..Len(items) :
              /\ Len(items[k].itemName) >= 2
              /\ items[k].qty # Null /\ items[k].qty > 0
              /\ items[k].rate # Null /\ items[k].rate > 0
              /\ items[k].amount # Null /\ items[k].amount > 0
              /\ items[k].qty <= 100000 * Scale
              /\ items[k].rate <= 1000000 * Scale
              /\ items[k].amount <= 10000000 * Scale
              /\ itemLine[k] >= ScanStart /\ itemLine[k] < endIdx

\* Two items extracted from a table that begins after a header and ends at a
\* footer
C26_Witness ==
    /\ pc = "done"
    /\ Len(items) >= 2
    /\ ScanStart >= 1
    /\ endIdx < Len(lines)

\* C27: in the review form, once updateItemAmount or removeItem has run on the
\* record on display, grand_total equals total equals the sum of the amounts
\* of the items that remain, the amount of every item updateItemAmount has
\* run on is its qty times its rate, and with no item left both totals are 0.
C27_TotalsFollowItems ==
    (pc = "review" /\ review.operated) =>
        /\ processedInvoice.grand_total = SumAmounts(processedInvoice.items)
        /\ processedInvoice.total = processedInvoice.grand_total
        /\ \A k \in 1..Len(processedInvoice.items) :
              review.edited[k] =>
                 processedInvoice.items[k].amount * Scale =
                    ToNumber(processedInvoice.items[k].qty)
                       * ToNumber(processedInvoice.items[k].rate)
        /\ (processedInvoice.items = <<>> =>
               processedInvoice.grand_total = 0 /\ processedInvoice.total = 0)

\* an edited item beside an unedited one, with totals the parser did not print
C27_Witness ==
    /\ pc = "review"
    /\ review.operated
    /\ \E j, k \in 1..Len(processedInvoice.items) : review.edited[j] /\ ~review.edited[k]
    /\ processedInvoice.grand_total \notin {r.grand_total : r \in ReviewInvoices}

\* C28 (as stated): in the application shell, whenever activeScreen is Desk,
\* isAuthenticated is true and currentUser is set.
C28_AsStated ==
    activeScreen = "Desk" => (isAuthenticated /\ currentUser # NoUser)

\* C29 (as stated): from clearInvoice until an image is loaded again,
\* processedInvoice stays null and lowConfidenceFields stays empty, also when
\* a processImage call was in flight when clearInvoice ran.
C29_AsStated ==
    imageFile = NoFile => (processedInvoice = NoInvoice /\ lowConfidenceFields = <<>>)

\* C30 (as stated): from the return of cleanup until the next call of
\* extractText starts, the worker handle is null and every worker created has
\* been terminated, also when a call was in flight when cleanup ran.
C30_AsStated ==
    call["cleanup"].at = "done" => (worker = NoWorker /\ liveWorkers = {})
====
